---- MODULE Spec2Model ----
(***************************************************************************)
(* Model of matrix-stickerbook: the collection store (collection.json),    *)
(* the pack store (packs.json), the collection workflow of the reaction    *)
(* handler, and the publish translator.                                    *)
(*                                                                         *)
(* A Sticker keeps the fields the operations read or write: ID, Name,      *)
(* SourceMXC, LocalMXC, OriginalBody, GeneratedAltText, InPacks, Usage.    *)
(* A Pack keeps Name, DisplayName, AvatarURL, Attribution, StickerIDs,     *)
(* PublishedRooms and Usage.  Go's nil and empty slices are both <<>>,     *)
(* the empty string is "".  Strings that the code transforms (pack names,  *)
(* captions) are sequences of one-character strings, with "CR" and "LF"    *)
(* for carriage return and line feed.                                      *)
(***************************************************************************)
EXTENDS Integers, Sequences, FiniteSets, TLC

VARIABLES collection, packs, last, prev, steps

vars == <<collection, packs, last, prev, steps>>

(***************************************************************************)
(* Bounds of the model.                                                    *)
(***************************************************************************)
MaxSteps == 3

MaxIds == 2

(***************************************************************************)
(* Input domains.                                                          *)
(***************************************************************************)
Images == {"img1", "img2"}

OwnHomeserver == "own"

(* The image and sticker events a reaction can point at: the MXC URI     *)
(* (homeserver and media id; an empty homeserver does not parse), the      *)
(* body text of the event, and the description the captioning service      *)
(* gives for what is downloaded from there.                                *)
ParentEvents ==
  { [mxc |-> [hs |-> "own", media |-> "m1"], body |-> <<"b">>,
     caption |-> <<"c">>],
    [mxc |-> [hs |-> "other", media |-> "m2"], body |-> <<>>,
     caption |-> <<"LF", "c", "CR", "LF", "d", " ">>],
    [mxc |-> [hs |-> "", media |-> ""], body |-> <<>>, caption |-> <<>>] }

UploadAddrs == { [hs |-> "own", media |-> "up"] }

DisplayNames ==
  { <<"F", " ", "M">>,
    <<"f", "-", "m">>,
    <<"p">>,
    <<"U", "n", "s", "o", "r", "t", "e", "d">> }

Shortcodes == {"cat"}

(* The <type> words given to the usage command of an item, and the usage  *)
(* values storage.ParseUsage returns to the usage command of a pack; <<>>  *)
(* is the nil of "reset".                                                  *)
UsageInputs ==
  { <<"r", "e", "s", "e", "t">>, <<"s", "t", "i", "c", "k", "e", "r">> }

PackUsages == { <<>>, <<"emoticon">> }

AvatarURLs == {"mxc://own/icon"}

Rooms == {"!r1", "!r2"}

BotUser == "@bot:own"

(***************************************************************************)
(* Sequence helpers.                                                       *)
(***************************************************************************)
Range(s) == { s[i] : i \in 1..Len(s) }

Contains(s, x) == \E i \in 1..Len(s) : s[i] = x

Without(s, x) == SelectSeq(s, LAMBDA e : e # x)

RemoveAt(s, i) == SubSeq(s, 1, i - 1) \o SubSeq(s, i + 1, Len(s))

NoDuplicates(s) == \A i, j \in 1..Len(s) : s[i] = s[j] => i = j

IsPrefix(s, t) == Len(s) <= Len(t) /\ SubSeq(t, 1, Len(s)) = s

SeqsUpTo(S, n) == UNION { [1..k -> S] : k \in 0..n }

(***************************************************************************)
(* matrix.HashImage: hex SHA-256 of the bytes.  Distinct byte strings of   *)
(* the model have distinct digests.                                        *)
(***************************************************************************)
HashImage(data) ==
  CASE data = "img1" -> "sha1"
    [] data = "img2" -> "sha2"

AllIds == { HashImage(d) : d \in Images }

IdLists == SeqsUpTo(AllIds, MaxIds)

(***************************************************************************)
(* Collection store.                                                       *)
(***************************************************************************)
StickerIndex(coll, id) ==
  IF \E i \in 1..Len(coll) : coll[i].ID = id
  THEN CHOOSE i \in 1..Len(coll) :
         /\ coll[i].ID = id
         /\ \A j \in 1..(i - 1) : coll[j].ID # id
  ELSE 0

(* Faulty variant: no lookup of an existing record with the same ID.      *)
AddStickerAlwaysAppend(coll, sticker) == Append(coll, sticker)

AddSticker(coll, sticker) ==
  LET i == StickerIndex(coll, sticker.ID)
  IN IF i # 0 THEN [coll EXCEPT ![i] = sticker]
     ELSE Append(coll, sticker)

GetSticker(coll, id) ==
  LET i == StickerIndex(coll, id)
  IN IF i # 0 THEN [err |-> "none", sticker |-> coll[i]]
     ELSE [err |-> "sticker not found", sticker |-> <<>>]

(* Faulty variant: a nil usage is taken as nothing to set.                *)
SetStickerUsageIgnoresNil(coll, id, usage) ==
  LET i == StickerIndex(coll, id)
  IN IF i # 0
     THEN [coll |-> IF usage = <<>> THEN coll ELSE [coll EXCEPT ![i].Usage = usage],
           err |-> "none"]
     ELSE [coll |-> coll, err |-> "sticker not found"]

SetStickerUsage(coll, id, usage) ==
  LET i == StickerIndex(coll, id)
  IN IF i # 0 THEN [coll |-> [coll EXCEPT ![i].Usage = usage], err |-> "none"]
     ELSE [coll |-> coll, err |-> "sticker not found"]

SetStickerName(coll, id, name) ==
  LET i == StickerIndex(coll, id)
  IN IF i # 0 THEN [coll |-> [coll EXCEPT ![i].Name = name], err |-> "none"]
     ELSE [coll |-> coll, err |-> "sticker not found"]

UpdateAltText(coll, id, altText) ==
  LET i == StickerIndex(coll, id)
  IN IF i # 0
     THEN [coll |-> [coll EXCEPT ![i].GeneratedAltText = altText], err |-> "none"]
     ELSE [coll |-> coll, err |-> "sticker not found"]

(***************************************************************************)
(* Pack store.                                                             *)
(***************************************************************************)
PackIndex(pks, name) ==
  IF \E i \in 1..Len(pks) : pks[i].Name = name
  THEN CHOOSE i \in 1..Len(pks) :
         /\ pks[i].Name = name
         /\ \A j \in 1..(i - 1) : pks[j].Name # name
  ELSE 0

(* Faulty variant: no check for an existing pack of that name.            *)
CreatePackNoExistsCheck(pks, name, displayName, attribution) ==
  [packs |-> Append(pks, [Name |-> name,
                          DisplayName |-> displayName,
                          AvatarURL |-> "",
                          Attribution |-> attribution,
                          StickerIDs |-> <<>>,
                          PublishedRooms |-> {},
                          Usage |-> <<>>]),
   err |-> "none"]

CreatePackWithAttribution(pks, name, displayName, attribution) ==
  IF PackIndex(pks, name) # 0
  THEN [packs |-> pks, err |-> "pack already exists"]
  ELSE [packs |-> Append(pks, [Name |-> name,
                               DisplayName |-> displayName,
                               AvatarURL |-> "",
                               Attribution |-> attribution,
                               StickerIDs |-> <<>>,
                               PublishedRooms |-> {},
                               Usage |-> <<>>]),
        err |-> "none"]

GetPack(pks, name) ==
  LET i == PackIndex(pks, name)
  IN IF i # 0 THEN [err |-> "none", pack |-> pks[i]]
     ELSE [err |-> "pack not found", pack |-> <<>>]

(* AddToPack, lines 82-93: append the id unless it is already a member.   *)
(* Faulty variants: no alreadyInPack check; new ids put in front.          *)
AppendMemberNoCheck(members, id) == Append(members, id)

AppendMemberInFront(members, id) ==
  IF Contains(members, id) THEN members ELSE <<id>> \o members

AppendMember(members, id) ==
  IF Contains(members, id) THEN members ELSE Append(members, id)

(* AddToPack, lines 67-94: validate and add per id, stopping at the first *)
(* id that is not in the collection.                                       *)
RECURSIVE AddIdsLoop(_, _, _)
AddIdsLoop(members, ids, coll) ==
  IF ids = <<>> THEN [members |-> members, err |-> "none"]
  ELSE IF StickerIndex(coll, Head(ids)) = 0
       THEN [members |-> members, err |-> "sticker not found in collection"]
       ELSE AddIdsLoop(AppendMember(members, Head(ids)), Tail(ids), coll)

(* AddToPack, lines 100-110: append the pack name unless already listed.  *)
(* Faulty variant: no inPacks check.                                      *)
AppendInPackNoCheck(inPacks, packName) == Append(inPacks, packName)

AppendInPack(inPacks, packName) ==
  IF Contains(inPacks, packName) THEN inPacks ELSE Append(inPacks, packName)

(* AddToPack, lines 98-112: the inner loop over stickerIDs for one item.  *)
RECURSIVE AddInPacksLoop(_, _, _)
AddInPacksLoop(sticker, ids, packName) ==
  IF ids = <<>> THEN sticker
  ELSE AddInPacksLoop(
         IF sticker.ID = Head(ids)
         THEN [sticker EXCEPT !.InPacks = AppendInPack(sticker.InPacks, packName)]
         ELSE sticker,
         Tail(ids), packName)

AddInPacks(coll, ids, packName) ==
  [i \in 1..Len(coll) |-> AddInPacksLoop(coll[i], ids, packName)]

(* Faulty variants: the pack is saved although an id was not found; the   *)
(* collection is updated although the pack was not found.                  *)
AddToPackSavesPartial(pks, coll, packName, ids) ==
  LET packIndex == PackIndex(pks, packName)
      added == AddIdsLoop(pks[packIndex].StickerIDs, ids, coll)
  IN IF packIndex = 0
     THEN [packs |-> pks, coll |-> coll, err |-> "pack not found"]
     ELSE [packs |-> [pks EXCEPT ![packIndex].StickerIDs = added.members],
           coll |-> IF added.err = "none" THEN AddInPacks(coll, ids, packName)
                    ELSE coll,
           err |-> added.err]

AddToPackLateCheck(pks, coll, packName, ids) ==
  LET packIndex == PackIndex(pks, packName)
      added == AddIdsLoop(pks[packIndex].StickerIDs, ids, coll)
  IN IF packIndex = 0
     THEN [packs |-> pks, coll |-> AddInPacks(coll, ids, packName),
           err |-> "pack not found"]
     ELSE IF added.err # "none"
     THEN [packs |-> pks, coll |-> coll, err |-> added.err]
     ELSE [packs |-> [pks EXCEPT ![packIndex].StickerIDs = added.members],
           coll |-> AddInPacks(coll, ids, packName),
           err |-> "none"]

(* AddToPack: both stores are saved only when every id was found; every   *)
(* error return happens before SaveCollection and SavePacks.               *)
AddToPack(pks, coll, packName, ids) ==
  LET packIndex == PackIndex(pks, packName)
      added == AddIdsLoop(pks[packIndex].StickerIDs, ids, coll)
  IN IF packIndex = 0
     THEN [packs |-> pks, coll |-> coll, err |-> "pack not found"]
     ELSE IF added.err # "none"
     THEN [packs |-> pks, coll |-> coll, err |-> added.err]
     ELSE [packs |-> [pks EXCEPT ![packIndex].StickerIDs = added.members],
           coll |-> AddInPacks(coll, ids, packName),
           err |-> "none"]

(* RemoveFromPack, lines 147-156.                                          *)
RECURSIVE RemoveIdsLoop(_, _)
RemoveIdsLoop(members, ids) ==
  IF ids = <<>> THEN members
  ELSE RemoveIdsLoop(Without(members, Head(ids)), Tail(ids))

(* Faulty variant: only the first listed id is removed.                    *)
RemoveIdsFirstOnly(members, ids) ==
  IF ids = <<>> THEN members ELSE Without(members, Head(ids))

RemoveIds(members, ids) == RemoveIdsLoop(members, ids)

(* RemoveFromPack, lines 158-171.                                          *)
RECURSIVE RemoveInPacksLoop(_, _, _)
RemoveInPacksLoop(sticker, ids, packName) ==
  IF ids = <<>> THEN sticker
  ELSE RemoveInPacksLoop(
         IF sticker.ID = Head(ids)
         THEN [sticker EXCEPT !.InPacks = Without(sticker.InPacks, packName)]
         ELSE sticker,
         Tail(ids), packName)

(* Faulty variant: the listed items lose every pack, not only packName.    *)
RemoveInPacksClearsAll(coll, ids, packName) ==
  [i \in 1..Len(coll) |->
     IF Contains(ids, coll[i].ID) THEN [coll[i] EXCEPT !.InPacks = <<>>]
     ELSE coll[i]]

RemoveInPacks(coll, ids, packName) ==
  [i \in 1..Len(coll) |-> RemoveInPacksLoop(coll[i], ids, packName)]

RemoveFromPack(pks, coll, packName, ids) ==
  LET packIndex == PackIndex(pks, packName)
  IN IF packIndex = 0
     THEN [packs |-> pks, coll |-> coll, err |-> "pack not found"]
     ELSE [packs |-> [pks EXCEPT ![packIndex].StickerIDs =
                        RemoveIds(pks[packIndex].StickerIDs, ids)],
           coll |-> RemoveInPacks(coll, ids, packName),
           err |-> "none"]

(* Faulty variant: the ledger is replaced by the one new entry.            *)
UpdatePublishedReplacesLedger(pks, packName, roomID, stateKey) ==
  LET i == PackIndex(pks, packName)
  IN IF i # 0
     THEN [packs |-> [pks EXCEPT ![i].PublishedRooms = { <<roomID, stateKey>> }],
           err |-> "none"]
     ELSE [packs |-> pks, err |-> "pack not found"]

UpdatePublished(pks, packName, roomID, stateKey) ==
  LET i == PackIndex(pks, packName)
  IN IF i # 0
     THEN [packs |-> [pks EXCEPT ![i].PublishedRooms =
                        { e \in pks[i].PublishedRooms : e[1] # roomID }
                          \cup { <<roomID, stateKey>> }],
           err |-> "none"]
     ELSE [packs |-> pks, err |-> "pack not found"]

SetPackAvatar(pks, packName, avatarURL) ==
  LET i == PackIndex(pks, packName)
  IN IF i # 0 THEN [packs |-> [pks EXCEPT ![i].AvatarURL = avatarURL], err |-> "none"]
     ELSE [packs |-> pks, err |-> "pack not found"]

SetPackUsage(pks, packName, usage) ==
  LET i == PackIndex(pks, packName)
  IN IF i # 0 THEN [packs |-> [pks EXCEPT ![i].Usage = usage], err |-> "none"]
     ELSE [packs |-> pks, err |-> "pack not found"]

(* DeleteSticker, lines 107-113: RemoveFromPack for every pack the item   *)
(* listed; an error of one call is logged and the loop goes on.            *)
RECURSIVE DeleteCascade(_, _, _, _)
DeleteCascade(pks, coll, packNames, id) ==
  IF packNames = <<>> THEN [packs |-> pks, coll |-> coll]
  ELSE LET r == RemoveFromPack(pks, coll, Head(packNames), <<id>>)
       IN DeleteCascade(r.packs, r.coll, Tail(packNames), id)

(* Faulty variant: no found check; the unchanged collection is saved.     *)
DeleteStickerNoFoundCheck(pks, coll, id) ==
  LET i == StickerIndex(coll, id)
  IN IF i = 0
     THEN [packs |-> pks, coll |-> coll, err |-> "none"]
     ELSE LET c == DeleteCascade(pks, RemoveAt(coll, i), coll[i].InPacks, id)
          IN [packs |-> c.packs, coll |-> c.coll, err |-> "none"]

DeleteSticker(pks, coll, id) ==
  LET i == StickerIndex(coll, id)
  IN IF i = 0
     THEN [packs |-> pks, coll |-> coll, err |-> "sticker not found"]
     ELSE LET c == DeleteCascade(pks, RemoveAt(coll, i), coll[i].InPacks, id)
          IN [packs |-> c.packs, coll |-> c.coll, err |-> "none"]

(***************************************************************************)
(* Publish translator (matrix.Client.PublishPack).  The images map is a    *)
(* set of entries with at most one entry per shortcode; assigning to an    *)
(* existing key replaces the entry.                                        *)
(***************************************************************************)
NoEvent == [room |-> "", stateKey |-> <<>>, pack |-> <<>>, images |-> {}]

(* Faulty variant: an item without an override is published with both     *)
(* usages instead of no usage field.                                       *)
StickerDataDefaultsToBoth(sticker, stickerID) ==
  [shortcode |-> IF sticker.Name = "" THEN stickerID ELSE sticker.Name,
   url |-> sticker.LocalMXC,
   body |-> IF sticker.GeneratedAltText = <<>> THEN sticker.OriginalBody
            ELSE sticker.GeneratedAltText,
   usage |-> IF Len(sticker.Usage) > 0 THEN sticker.Usage
             ELSE <<"sticker", "emoticon">>]

StickerData(sticker, stickerID) ==
  [shortcode |-> IF sticker.Name = "" THEN stickerID ELSE sticker.Name,
   url |-> sticker.LocalMXC,
   body |-> IF sticker.GeneratedAltText = <<>> THEN sticker.OriginalBody
            ELSE sticker.GeneratedAltText,
   usage |-> sticker.Usage]

(* encoding/json on StickerData: url, body and info are always written;   *)
(* usage has omitempty and is left out when it is empty.                   *)
MarshalStickerData(d) ==
  [keys |-> {"url", "body", "info"}
              \cup (IF Len(d.usage) > 0 THEN {"usage"} ELSE {}),
   url |-> d.url,
   body |-> d.body,
   usage |-> d.usage]

(* Faulty variant: a member that is not in the collection is skipped.     *)
RECURSIVE BuildImagesSkipsMissing(_, _, _)
BuildImagesSkipsMissing(images, ids, coll) ==
  IF ids = <<>> THEN [images |-> images, err |-> "none"]
  ELSE LET i == StickerIndex(coll, Head(ids))
       IN IF i = 0
          THEN BuildImagesSkipsMissing(images, Tail(ids), coll)
          ELSE LET d == StickerData(coll[i], Head(ids))
               IN BuildImagesSkipsMissing(
                    { e \in images : e.shortcode # d.shortcode } \cup {d},
                    Tail(ids), coll)

RECURSIVE BuildImages(_, _, _)
BuildImages(images, ids, coll) ==
  IF ids = <<>> THEN [images |-> images, err |-> "none"]
  ELSE LET i == StickerIndex(coll, Head(ids))
       IN IF i = 0
          THEN [images |-> images, err |-> "sticker not found in collection"]
          ELSE LET d == StickerData(coll[i], Head(ids))
               IN BuildImages({ e \in images : e.shortcode # d.shortcode } \cup {d},
                              Tail(ids), coll)

PackInfo(pack) ==
  [DisplayName |-> pack.DisplayName,
   AvatarURL |-> pack.AvatarURL,
   Usage |-> IF Len(pack.Usage) > 0 THEN pack.Usage ELSE <<"sticker", "emoticon">>,
   Attribution |-> pack.Attribution]

(* Faulty variant: the room is recorded before the state event is sent.   *)
PublishPackRecordsBeforeSend(pks, coll, packName, roomID, sendOk) ==
  LET got == GetPack(pks, packName)
      built == BuildImages({}, got.pack.StickerIDs, coll)
      ev == [room |-> roomID, stateKey |-> packName,
             pack |-> PackInfo(got.pack), images |-> built.images]
      recorded == UpdatePublished(pks, packName, roomID, packName).packs
  IN IF got.err # "none"
     THEN [packs |-> pks, err |-> "failed to load pack", attempted |-> FALSE,
           event |-> NoEvent]
     ELSE IF built.err # "none"
     THEN [packs |-> pks, err |-> built.err, attempted |-> FALSE, event |-> NoEvent]
     ELSE IF ~sendOk
     THEN [packs |-> recorded, err |-> "failed to send state event",
           attempted |-> TRUE, event |-> ev]
     ELSE [packs |-> recorded, err |-> "none", attempted |-> TRUE, event |-> ev]

PublishPack(pks, coll, packName, roomID, sendOk) ==
  LET got == GetPack(pks, packName)
      built == BuildImages({}, got.pack.StickerIDs, coll)
      ev == [room |-> roomID, stateKey |-> packName,
             pack |-> PackInfo(got.pack), images |-> built.images]
  IN IF got.err # "none"
     THEN [packs |-> pks, err |-> "failed to load pack", attempted |-> FALSE,
           event |-> NoEvent]
     ELSE IF built.err # "none"
     THEN [packs |-> pks, err |-> built.err, attempted |-> FALSE, event |-> NoEvent]
     ELSE IF ~sendOk
     THEN [packs |-> pks, err |-> "failed to send state event", attempted |-> TRUE,
           event |-> ev]
     ELSE [packs |-> UpdatePublished(pks, packName, roomID, packName).packs,
           err |-> "none", attempted |-> TRUE, event |-> ev]

(***************************************************************************)
(* Command router: pack publish without a room (bot.packPublish with       *)
(* roomID "").  The loop ranges over the ledger of the pack as loaded      *)
(* before the loop; Go iterates a map in an unspecified order, given here  *)
(* as order; okRooms are the rooms where the transport accepts the state   *)
(* event.  Every call of PublishPack loads the stores again.               *)
(***************************************************************************)
LedgerRooms(pack) == { e[1] : e \in pack.PublishedRooms }

Orders(S) ==
  { o \in [1..Cardinality(S) -> S] : \A i, j \in 1..Cardinality(S) :
                                        o[i] = o[j] => i = j }

NoCalls == [calls |-> <<>>, successCount |-> 0, errors |-> <<>>]

(* Faulty variant: the loop ends at the first room that fails.            *)
RECURSIVE PublishLoopStopsAtError(_, _, _, _, _, _)
PublishLoopStopsAtError(pks, coll, packName, order, okRooms, acc) ==
  IF order = <<>>
  THEN [packs |-> pks, calls |-> acc.calls, successCount |-> acc.successCount,
        errors |-> acc.errors]
  ELSE LET savedRoomID == Head(order)
           r == PublishPack(pks, coll, packName, savedRoomID,
                            savedRoomID \in okRooms)
           call == [room |-> savedRoomID, err |-> r.err,
                    attempted |-> r.attempted, event |-> r.event]
       IN IF r.err # "none"
          THEN [packs |-> r.packs, calls |-> Append(acc.calls, call),
                successCount |-> acc.successCount,
                errors |-> Append(acc.errors, savedRoomID)]
          ELSE PublishLoopStopsAtError(r.packs, coll, packName, Tail(order),
                 okRooms,
                 [calls |-> Append(acc.calls, call),
                  successCount |-> acc.successCount + 1,
                  errors |-> acc.errors])

RECURSIVE PublishLoop(_, _, _, _, _, _)
PublishLoop(pks, coll, packName, order, okRooms, acc) ==
  IF order = <<>>
  THEN [packs |-> pks, calls |-> acc.calls, successCount |-> acc.successCount,
        errors |-> acc.errors]
  ELSE LET savedRoomID == Head(order)
           r == PublishPack(pks, coll, packName, savedRoomID,
                            savedRoomID \in okRooms)
           call == [room |-> savedRoomID, err |-> r.err,
                    attempted |-> r.attempted, event |-> r.event]
       IN PublishLoop(r.packs, coll, packName, Tail(order), okRooms,
            [calls |-> Append(acc.calls, call),
             successCount |-> IF r.err = "none" THEN acc.successCount + 1
                              ELSE acc.successCount,
             errors |-> IF r.err # "none" THEN Append(acc.errors, savedRoomID)
                        ELSE acc.errors])

packPublish(pks, coll, packName, order, okRooms) ==
  LET got == GetPack(pks, packName)
      done == PublishLoop(pks, coll, packName, order, okRooms, NoCalls)
  IN IF got.err # "none"
     THEN [packs |-> pks, err |-> "pack not found", calls |-> <<>>,
           successCount |-> 0, errors |-> <<>>]
     ELSE IF got.pack.PublishedRooms = {}
     THEN [packs |-> pks, err |-> "not published to any rooms", calls |-> <<>>,
           successCount |-> 0, errors |-> <<>>]
     ELSE [packs |-> done.packs,
           err |-> IF Len(done.errors) > 0 THEN "published to some rooms"
                   ELSE "none",
           calls |-> done.calls, successCount |-> done.successCount,
           errors |-> done.errors]

(***************************************************************************)
(* Command router: pack create (bot.packCreate).                           *)
(***************************************************************************)
UpperLetters ==
  <<"A", "B", "C", "D", "E", "F", "G", "H", "I", "J", "K", "L", "M",
    "N", "O", "P", "Q", "R", "S", "T", "U", "V", "W", "X", "Y", "Z">>

LowerLetters ==
  <<"a", "b", "c", "d", "e", "f", "g", "h", "i", "j", "k", "l", "m",
    "n", "o", "p", "q", "r", "s", "t", "u", "v", "w", "x", "y", "z">>

ToLowerChar(c) ==
  IF \E i \in 1..Len(UpperLetters) : UpperLetters[i] = c
  THEN LowerLetters[CHOOSE i \in 1..Len(UpperLetters) : UpperLetters[i] = c]
  ELSE c

ToLower(s) == [i \in 1..Len(s) |-> ToLowerChar(s[i])]

SpacesToHyphens(s) == [i \in 1..Len(s) |-> IF s[i] = " " THEN "-" ELSE s[i]]

PackID(name) == ToLower(SpacesToHyphens(name))

Unsorted == <<"u", "n", "s", "o", "r", "t", "e", "d">>

(* Faulty variant: the reserved name is compared before normalizing.      *)
packCreateChecksRawName(pks, name) ==
  IF name = Unsorted
  THEN [packs |-> pks, err |-> "reserved name"]
  ELSE CreatePackWithAttribution(pks, PackID(name), name, BotUser)

packCreate(pks, name) ==
  IF PackID(name) = Unsorted
  THEN [packs |-> pks, err |-> "reserved name"]
  ELSE CreatePackWithAttribution(pks, PackID(name), name, BotUser)

(* The pack names the commands are given: the names a create can store.  *)
PackNames == { PackID(d) : d \in DisplayNames } \ {Unsorted}

(***************************************************************************)
(* Collection workflow (bot.collectSticker).                               *)
(***************************************************************************)
RECURSIVE ReplaceCRLF(_)
ReplaceCRLF(s) ==
  IF s = <<>> THEN <<>>
  ELSE IF Len(s) >= 2 /\ s[1] = "CR" /\ s[2] = "LF"
       THEN <<" ">> \o ReplaceCRLF(SubSeq(s, 3, Len(s)))
       ELSE <<s[1]>> \o ReplaceCRLF(Tail(s))

ReplaceChar(s, from, to) == [i \in 1..Len(s) |-> IF s[i] = from THEN to ELSE s[i]]

RECURSIVE TrimLeft(_)
TrimLeft(s) ==
  IF s # <<>> /\ Head(s) \in {" ", "CR", "LF"} THEN TrimLeft(Tail(s)) ELSE s

RECURSIVE TrimRight(_)
TrimRight(s) ==
  IF s # <<>> /\ s[Len(s)] \in {" ", "CR", "LF"}
  THEN TrimRight(SubSeq(s, 1, Len(s) - 1)) ELSE s

TrimSpace(s) == TrimRight(TrimLeft(s))

CleanAltText(altText) ==
  TrimSpace(ReplaceChar(ReplaceChar(ReplaceCRLF(altText), "LF", " "), "CR", " "))

FailPoints == {"none", "download", "decode", "upload", "caption", "persist"}

NewSticker(stickerID, mxcURI, localMXC, originalBody, altText) ==
  [ID |-> stickerID,
   Name |-> stickerID,
   SourceMXC |-> mxcURI,
   LocalMXC |-> localMXC,
   OriginalBody |-> originalBody,
   GeneratedAltText |-> altText,
   InPacks |-> <<>>,
   Usage |-> <<>>]

(* failAt names the call that fails in this run, if it is made: a call of  *)
(* a collaborator, or storage.AddSticker ("persist", which then returns    *)
(* its error before it writes); data, upAddr and rawCaption are what the   *)
(* collaborators return.                                                   *)
(* Faulty variants: the record is saved before the caption is asked for;  *)
(* a failing caption is replaced by an empty one; every source is         *)
(* uploaded again.                                                        *)
collectStickerSavesBeforeCaption(coll, mxcURI, originalBody, data, failAt, upAddr, rawCaption) ==
  LET needsRehost == mxcURI.hs # OwnHomeserver
      stickerID == HashImage(data)
      localMXC == IF needsRehost THEN upAddr ELSE mxcURI
      sticker == NewSticker(stickerID, mxcURI, localMXC, originalBody,
                            CleanAltText(rawCaption))
      failed(err, up, cap) == [coll |-> coll, err |-> err, id |-> "",
                               uploaded |-> up, captioned |-> cap]
      saved(err, cap) == [coll |-> AddSticker(coll, [sticker EXCEPT !.GeneratedAltText = <<>>]), err |-> err,
                          id |-> stickerID, uploaded |-> needsRehost,
                          captioned |-> cap]
  IN IF mxcURI.hs = "" THEN failed("invalid MXC URI", FALSE, FALSE)
     ELSE IF failAt = "download" THEN failed("download failed", FALSE, FALSE)
     ELSE IF failAt = "decode" THEN failed("failed to get image info", FALSE, FALSE)
     ELSE IF needsRehost /\ failAt = "upload"
     THEN failed("upload failed", FALSE, FALSE)
     ELSE IF failAt = "caption"
     THEN saved("alt-text generation failed", FALSE)
     ELSE IF failAt = "persist"
     THEN failed("failed to save sticker", needsRehost, TRUE)
     ELSE [saved("none", TRUE) EXCEPT !.coll = AddSticker(coll, sticker)]

collectStickerWithoutCaption(coll, mxcURI, originalBody, data, failAt, upAddr, rawCaption) ==
  LET needsRehost == mxcURI.hs # OwnHomeserver
      stickerID == HashImage(data)
      localMXC == IF needsRehost THEN upAddr ELSE mxcURI
      sticker == NewSticker(stickerID, mxcURI, localMXC, originalBody,
                            CleanAltText(rawCaption))
      failed(err, up, cap) == [coll |-> coll, err |-> err, id |-> "",
                               uploaded |-> up, captioned |-> cap]
      saved(err, cap) == [coll |-> AddSticker(coll, [sticker EXCEPT !.GeneratedAltText = <<>>]), err |-> err,
                          id |-> stickerID, uploaded |-> needsRehost,
                          captioned |-> cap]
  IN IF mxcURI.hs = "" THEN failed("invalid MXC URI", FALSE, FALSE)
     ELSE IF failAt = "download" THEN failed("download failed", FALSE, FALSE)
     ELSE IF failAt = "decode" THEN failed("failed to get image info", FALSE, FALSE)
     ELSE IF needsRehost /\ failAt = "upload"
     THEN failed("upload failed", FALSE, FALSE)
     ELSE IF failAt = "caption"
     THEN saved("none", FALSE)
     ELSE IF failAt = "persist"
     THEN failed("failed to save sticker", needsRehost, TRUE)
     ELSE [saved("none", TRUE) EXCEPT !.coll = AddSticker(coll, sticker)]

collectStickerAlwaysRehosts(coll, mxcURI, originalBody, data, failAt, upAddr, rawCaption) ==
  LET needsRehost == TRUE
      stickerID == HashImage(data)
      localMXC == IF needsRehost THEN upAddr ELSE mxcURI
      sticker == NewSticker(stickerID, mxcURI, localMXC, originalBody,
                            CleanAltText(rawCaption))
      failed(err, up, cap) == [coll |-> coll, err |-> err, id |-> "",
                               uploaded |-> up, captioned |-> cap]
      saved(err, cap) == [coll |-> AddSticker(coll, sticker), err |-> err,
                          id |-> stickerID, uploaded |-> needsRehost,
                          captioned |-> cap]
  IN IF mxcURI.hs = "" THEN failed("invalid MXC URI", FALSE, FALSE)
     ELSE IF failAt = "download" THEN failed("download failed", FALSE, FALSE)
     ELSE IF failAt = "decode" THEN failed("failed to get image info", FALSE, FALSE)
     ELSE IF needsRehost /\ failAt = "upload"
     THEN failed("upload failed", FALSE, FALSE)
     ELSE IF failAt = "caption"
     THEN failed("alt-text generation failed", needsRehost, FALSE)
     ELSE IF failAt = "persist"
     THEN failed("failed to save sticker", needsRehost, TRUE)
     ELSE saved("none", TRUE)

collectSticker(coll, mxcURI, originalBody, data, failAt, upAddr, rawCaption) ==
  LET needsRehost == mxcURI.hs # OwnHomeserver
      stickerID == HashImage(data)
      localMXC == IF needsRehost THEN upAddr ELSE mxcURI
      sticker == NewSticker(stickerID, mxcURI, localMXC, originalBody,
                            CleanAltText(rawCaption))
      failed(err, up, cap) == [coll |-> coll, err |-> err, id |-> "",
                               uploaded |-> up, captioned |-> cap]
  IN IF mxcURI.hs = "" THEN failed("invalid MXC URI", FALSE, FALSE)
     ELSE IF failAt = "download" THEN failed("download failed", FALSE, FALSE)
     ELSE IF failAt = "decode" THEN failed("failed to get image info", FALSE, FALSE)
     ELSE IF needsRehost /\ failAt = "upload"
     THEN failed("upload failed", FALSE, FALSE)
     ELSE IF failAt = "caption"
     THEN failed("alt-text generation failed", needsRehost, FALSE)
     ELSE IF failAt = "persist"
     THEN failed("failed to save sticker", needsRehost, TRUE)
     ELSE [coll |-> AddSticker(coll, sticker), err |-> "none", id |-> stickerID,
           uploaded |-> needsRehost, captioned |-> TRUE]

(* bot.processReaction for a reaction whose key is a collection command:  *)
(* run the workflow, then redact the reaction; a failed redaction is       *)
(* logged only.                                                            *)
(* Faulty variant: a failed redaction is returned as the handler's error. *)
processReactionFailsOnRedactError(coll, run) ==
  LET r == collectSticker(coll, run.parent.mxc, run.parent.body, run.data,
                          run.failAt, run.upAddr, run.parent.caption)
  IN [coll |-> r.coll,
      err |-> IF r.err = "none" /\ ~run.redactOk THEN "failed to redact"
              ELSE r.err,
      id |-> r.id, uploaded |-> r.uploaded, captioned |-> r.captioned,
      redacted |-> r.err = "none" /\ run.redactOk]

processReaction(coll, run) ==
  LET r == collectSticker(coll, run.parent.mxc, run.parent.body, run.data,
                          run.failAt, run.upAddr, run.parent.caption)
  IN [coll |-> r.coll, err |-> r.err, id |-> r.id, uploaded |-> r.uploaded,
      captioned |-> r.captioned,
      redacted |-> r.err = "none" /\ run.redactOk]

(***************************************************************************)
(* storage.ParseUsage and storage.FormatUsage.  The input is a sequence of *)
(* characters; the usage values and the formatted text are sequences of    *)
(* whole words.                                                            *)
(***************************************************************************)
WordSticker == <<"s", "t", "i", "c", "k", "e", "r">>

WordEmoticon == <<"e", "m", "o", "t", "i", "c", "o", "n">>

WordEmoji == <<"e", "m", "o", "j", "i">>

WordBoth == <<"b", "o", "t", "h">>

WordReset == <<"r", "e", "s", "e", "t">>

(* Faulty variant: the input is not lower-cased.                          *)
ParseUsageCaseSensitive(input) ==
  LET word == TrimSpace(input)
  IN CASE word = WordSticker -> [usage |-> <<"sticker">>, err |-> "none"]
       [] word \in {WordEmoticon, WordEmoji} ->
            [usage |-> <<"emoticon">>, err |-> "none"]
       [] word = WordBoth -> [usage |-> <<"sticker", "emoticon">>, err |-> "none"]
       [] word = WordReset -> [usage |-> <<>>, err |-> "none"]
       [] OTHER -> [usage |-> <<>>, err |-> "invalid usage type"]

ParseUsage(input) ==
  LET word == ToLower(TrimSpace(input))
  IN CASE word = WordSticker -> [usage |-> <<"sticker">>, err |-> "none"]
       [] word \in {WordEmoticon, WordEmoji} ->
            [usage |-> <<"emoticon">>, err |-> "none"]
       [] word = WordBoth -> [usage |-> <<"sticker", "emoticon">>, err |-> "none"]
       [] word = WordReset -> [usage |-> <<>>, err |-> "none"]
       [] OTHER -> [usage |-> <<>>, err |-> "invalid usage type"]

Join(elems, sep) ==
  [i \in 1..(2 * Len(elems) - 1) |->
     IF i % 2 = 1 THEN elems[(i + 1) \div 2] ELSE sep]

FormatUsage(usage) ==
  LET hasSticker == \E i \in 1..Len(usage) : usage[i] = "sticker"
      hasEmoticon == \E i \in 1..Len(usage) : usage[i] = "emoticon"
  IN IF Len(usage) = 0 THEN <<"(not set)">>
     ELSE IF hasSticker /\ hasEmoticon THEN <<"both">>
     ELSE IF hasSticker THEN <<"sticker">>
     ELSE IF hasEmoticon THEN <<"emoticon">>
     ELSE Join(usage, ", ")

(* bot.stickerUsage.                                                      *)
stickerUsage(coll, stickerID, usageStr) ==
  LET parsed == ParseUsage(usageStr)
  IN IF parsed.err # "none" THEN [coll |-> coll, err |-> parsed.err]
     ELSE SetStickerUsage(coll, stickerID, parsed.usage)

(***************************************************************************)
(* Command router (bot.executeCommand).  args is the message body after    *)
(* "!sticker" split at white space (strings.Fields): a sequence of words,  *)
(* each a sequence of symbols.  Verbs, pack names and usage words are      *)
(* spelled out; a sticker id, a room id, an MXC URI or a shortcode is one   *)
(* symbol of this model, and Sym gives it back from its word.  The result  *)
(* is the two stores, the reply (the usage or hint message, or the error    *)
(* of the operation called, "none" for its success message), whether       *)
(* SendStateEvent was called, and the calls of PublishPack made.  env      *)
(* holds what the transport does during the command: whether a send        *)
(* succeeds, the rooms where it does and the order of the map iteration    *)
(* when every saved room is published to.                                  *)
(***************************************************************************)
CmdPack == <<"p", "a", "c", "k">>
CmdList == <<"l", "i", "s", "t">>
CmdShow == <<"s", "h", "o", "w">>
CmdDelete == <<"d", "e", "l", "e", "t", "e">>
CmdRemove == <<"r", "e", "m", "o", "v", "e">>
CmdUsage == <<"u", "s", "a", "g", "e">>
CmdName == <<"n", "a", "m", "e">>
CmdCreate == <<"c", "r", "e", "a", "t", "e">>
CmdAdd == <<"a", "d", "d">>
CmdPublish == <<"p", "u", "b", "l", "i", "s", "h">>
CmdAvatar == <<"a", "v", "a", "t", "a", "r">>
CmdUnsorted == <<"u", "n", "s", "o", "r", "t", "e", "d">>

Tok(a) == <<a>>

Sym(word) == word[1]

RECURSIVE JoinArgs(_)
JoinArgs(words) ==
  IF words = <<>> THEN <<>>
  ELSE IF Len(words) = 1 THEN words[1]
  ELSE words[1] \o <<" ">> \o JoinArgs(Tail(words))

Reply(pks, coll, reply) ==
  [packs |-> pks, coll |-> coll, reply |-> reply, attempted |-> FALSE,
   calls |-> <<>>]

RepublishReply(coll, r) ==
  [packs |-> r.packs, coll |-> coll, reply |-> r.err,
   attempted |-> \E i \in 1..Len(r.calls) : r.calls[i].attempted,
   calls |-> r.calls]

PublishReply(coll, r) ==
  [packs |-> r.packs, coll |-> coll, reply |-> r.err,
   attempted |-> r.attempted, calls |-> <<>>]

SavedRooms(pks, packName) ==
  IF PackIndex(pks, packName) = 0 THEN {}
  ELSE LedgerRooms(pks[PackIndex(pks, packName)])

packPublishCommand(pks, coll, packName, roomID, env) ==
  IF roomID = ""
  THEN RepublishReply(coll,
         packPublish(pks, coll, packName,
                     SelectSeq(env.order,
                               LAMBDA room : room \in SavedRooms(pks, packName)),
                     env.okRooms \cap SavedRooms(pks, packName)))
  ELSE IF roomID \notin Rooms THEN Reply(pks, coll, "Invalid room ID")
  ELSE PublishReply(coll, PublishPack(pks, coll, packName, roomID, env.sendOk))

packAvatar(pks, coll, packName, avatarURL) ==
  IF avatarURL \notin AvatarURLs THEN Reply(pks, coll, "Invalid MXC URI")
  ELSE Reply(SetPackAvatar(pks, packName, avatarURL).packs, coll,
             SetPackAvatar(pks, packName, avatarURL).err)

packUsage(pks, coll, packName, usageStr) ==
  LET parsed == ParseUsage(usageStr)
  IN IF parsed.err # "none" THEN Reply(pks, coll, parsed.err)
     ELSE Reply(SetPackUsage(pks, packName, parsed.usage).packs, coll,
                SetPackUsage(pks, packName, parsed.usage).err)

stickerName(pks, coll, stickerID, name) ==
  IF name \notin Shortcodes THEN Reply(pks, coll, "Invalid shortcode")
  ELSE Reply(pks, SetStickerName(coll, stickerID, name).coll,
             SetStickerName(coll, stickerID, name).err)

(* Bot.listUnsorted: the items listed, in the order of the collection;    *)
(* Bot.packList: the count shown for "unsorted".                           *)
listUnsorted(coll) == SelectSeq(coll, LAMBDA sticker : Len(sticker.InPacks) = 0)

unsortedCount(coll) ==
  Cardinality({ i \in 1..Len(coll) : Len(coll[i].InPacks) = 0 })

(* Faulty variant: pack create without the argument count check.          *)
handlePackCommandCreateUnchecked(pks, coll, args, env) ==
  IF Len(args) = 0 THEN Reply(pks, coll, "No pack subcommand specified")
  ELSE IF args[1] = CmdList THEN Reply(pks, coll, "none")
  ELSE IF args[1] = CmdCreate
  THEN IF FALSE THEN Reply(pks, coll, "Usage")
       ELSE Reply(packCreate(pks, JoinArgs(Tail(args))).packs, coll,
                  packCreate(pks, JoinArgs(Tail(args))).err)
  ELSE IF args[1] = CmdAdd
  THEN IF Len(args) < 3 THEN Reply(pks, coll, "Usage")
       ELSE LET r == AddToPack(pks, coll, args[2], <<Sym(args[3])>>)
            IN Reply(r.packs, r.coll, r.err)
  ELSE IF args[1] = CmdRemove
  THEN IF Len(args) < 3 THEN Reply(pks, coll, "Usage")
       ELSE LET r == RemoveFromPack(pks, coll, args[2], <<Sym(args[3])>>)
            IN Reply(r.packs, r.coll, r.err)
  ELSE IF args[1] = CmdShow
  THEN IF Len(args) < 2 THEN Reply(pks, coll, "Usage")
       ELSE Reply(pks, coll, GetPack(pks, args[2]).err)
  ELSE IF args[1] = CmdPublish
  THEN IF Len(args) < 2 THEN Reply(pks, coll, "Usage")
       ELSE packPublishCommand(pks, coll, args[2],
                               IF Len(args) >= 3 THEN Sym(args[3]) ELSE "", env)
  ELSE IF args[1] = CmdAvatar
  THEN IF Len(args) < 3 THEN Reply(pks, coll, "Usage")
       ELSE packAvatar(pks, coll, args[2], Sym(args[3]))
  ELSE IF args[1] = CmdUsage
  THEN IF Len(args) < 3 THEN Reply(pks, coll, "Usage")
       ELSE packUsage(pks, coll, args[2], args[3])
  ELSE Reply(pks, coll, "Unknown pack subcommand")

handlePackCommand(pks, coll, args, env) ==
  IF Len(args) = 0 THEN Reply(pks, coll, "No pack subcommand specified")
  ELSE IF args[1] = CmdList THEN Reply(pks, coll, "none")
  ELSE IF args[1] = CmdCreate
  THEN IF Len(args) < 2 THEN Reply(pks, coll, "Usage")
       ELSE Reply(packCreate(pks, JoinArgs(Tail(args))).packs, coll,
                  packCreate(pks, JoinArgs(Tail(args))).err)
  ELSE IF args[1] = CmdAdd
  THEN IF Len(args) < 3 THEN Reply(pks, coll, "Usage")
       ELSE LET r == AddToPack(pks, coll, args[2], <<Sym(args[3])>>)
            IN Reply(r.packs, r.coll, r.err)
  ELSE IF args[1] = CmdRemove
  THEN IF Len(args) < 3 THEN Reply(pks, coll, "Usage")
       ELSE LET r == RemoveFromPack(pks, coll, args[2], <<Sym(args[3])>>)
            IN Reply(r.packs, r.coll, r.err)
  ELSE IF args[1] = CmdShow
  THEN IF Len(args) < 2 THEN Reply(pks, coll, "Usage")
       ELSE Reply(pks, coll, GetPack(pks, args[2]).err)
  ELSE IF args[1] = CmdPublish
  THEN IF Len(args) < 2 THEN Reply(pks, coll, "Usage")
       ELSE packPublishCommand(pks, coll, args[2],
                               IF Len(args) >= 3 THEN Sym(args[3]) ELSE "", env)
  ELSE IF args[1] = CmdAvatar
  THEN IF Len(args) < 3 THEN Reply(pks, coll, "Usage")
       ELSE packAvatar(pks, coll, args[2], Sym(args[3]))
  ELSE IF args[1] = CmdUsage
  THEN IF Len(args) < 3 THEN Reply(pks, coll, "Usage")
       ELSE packUsage(pks, coll, args[2], args[3])
  ELSE Reply(pks, coll, "Unknown pack subcommand")

handleListCommand(pks, coll, args) ==
  IF Len(args) = 0 THEN Reply(pks, coll, "No list subcommand specified")
  ELSE IF args[1] = CmdUnsorted THEN Reply(pks, coll, "none")
  ELSE Reply(pks, coll, "Unknown list subcommand")

executeCommand(pks, coll, args, env) ==
  IF Len(args) = 0 THEN Reply(pks, coll, "help")
  ELSE IF args[1] = CmdPack THEN handlePackCommand(pks, coll, Tail(args), env)
  ELSE IF args[1] = CmdList THEN handleListCommand(pks, coll, Tail(args))
  ELSE IF args[1] = CmdShow
  THEN IF Len(args) < 2 THEN Reply(pks, coll, "Usage")
       ELSE Reply(pks, coll, GetSticker(coll, Sym(args[2])).err)
  ELSE IF args[1] \in {CmdDelete, CmdRemove}
  THEN IF Len(args) < 2 THEN Reply(pks, coll, "Usage")
       ELSE LET r == DeleteSticker(pks, coll, Sym(args[2]))
            IN Reply(r.packs, r.coll, r.err)
  ELSE IF args[1] = CmdUsage
  THEN IF Len(args) < 3 THEN Reply(pks, coll, "Usage")
       ELSE Reply(pks, stickerUsage(coll, Sym(args[2]), args[3]).coll,
                  stickerUsage(coll, Sym(args[2]), args[3]).err)
  ELSE IF args[1] = CmdName
  THEN IF Len(args) < 3 THEN Reply(pks, coll, "Usage")
       ELSE stickerName(pks, coll, Sym(args[2]), Sym(args[3]))
  ELSE Reply(pks, coll, "Unknown command")

(***************************************************************************)
(* State machine.  collection and packs are the contents of                *)
(* collection.json and packs.json.  last records the operation that        *)
(* completed last: its arguments (arg is the display name or the usage     *)
(* given, or the MXC URI of the event reacted to), its error, the transport calls it made and the state event it   *)
(* passed to SendStateEvent, and for a publish to all rooms the calls of PublishPack in   *)
(* the order made, the success count and the rooms reported as errors; prev holds the two stores as they     *)
(* were when that operation started (history variables); steps counts      *)
(* completed operations.                                                   *)
(***************************************************************************)
Op(op, pack, ids, id, err) ==
  [op |-> op, pack |-> pack, ids |-> ids, id |-> id, err |-> err,
   uploaded |-> FALSE, redacted |-> FALSE, attempted |-> FALSE,
   event |-> NoEvent, arg |-> <<>>, calls |-> <<>>, successCount |-> 0,
   errors |-> <<>>, captioned |-> FALSE,
   repeat |-> /\ last.op = op /\ last.pack = pack /\ last.ids = ids
              /\ last.id = id /\ last.err = "none"]

(* The bot starts on the files an earlier run left in the data directory: *)
(* no files, or a collection of newly collected items and newly created    *)
(* packs, or an item that was put in a pack and published to a room;       *)
(* built here by the operations that write those files.                    *)
SeedCollection(n) ==
  LET one == collectSticker(<<>>, [hs |-> "own", media |-> "m1"], <<"b">>,
                            "img1", "none", [hs |-> "own", media |-> "up"],
                            <<"c">>).coll
      two == collectSticker(one, [hs |-> "other", media |-> "m2"], <<>>,
                            "img2", "none", [hs |-> "own", media |-> "up"],
                            <<"c">>).coll
      one1 == packCreate(<<>>, <<"p">>).packs
      three == AddToPack(one1, one, <<"p">>, <<"sha1">>).coll
  IN CASE n = 0 -> <<>> [] n = 1 -> one [] n = 2 -> two [] OTHER -> three

SeedPacks(n) ==
  LET one == packCreate(<<>>, <<"p">>).packs
      two == packCreate(one, <<"F", " ", "M">>).packs
      added == AddToPack(one, SeedCollection(1), <<"p">>, <<"sha1">>)
      three == PublishPack(added.packs, added.coll, <<"p">>, "!r1", TRUE).packs
  IN CASE n = 0 -> <<>> [] n = 1 -> one [] n = 2 -> two [] OTHER -> three

Seeds == {0, 1, 2, 3}

Init ==
  \E n \in Seeds :
    /\ collection = SeedCollection(n)
    /\ packs = SeedPacks(n)
    /\ last = [op |-> "init", pack |-> <<>>, ids |-> <<>>, id |-> "",
               err |-> "none", uploaded |-> FALSE, redacted |-> FALSE,
               attempted |-> FALSE, event |-> NoEvent, arg |-> <<>>,
               calls |-> <<>>, successCount |-> 0, errors |-> <<>>,
               captioned |-> FALSE, repeat |-> FALSE]
    /\ prev = [packs |-> SeedPacks(n), coll |-> SeedCollection(n)]
    /\ steps = 0

Step ==
  /\ steps < MaxSteps
  /\ steps' = steps + 1
  /\ prev' = [packs |-> packs, coll |-> collection]

(* The runs of the workflow: what the reaction points at, the bytes the   *)
(* download returns, which collaborator call fails, and whether the        *)
(* redaction of the reaction succeeds.  The redaction is attempted only    *)
(* after a successful run, so its outcome is listed for those runs only;   *)
(* likewise a URI that does not parse is listed once (no call is made), a  *)
(* failing run with one value for the bytes (a run that fails stores       *)
(* nothing of them), and a failing upload only where an upload is made.    *)
WorkflowRuns ==
  { r \in [parent : ParentEvents, data : Images, failAt : FailPoints,
           upAddr : UploadAddrs, redactOk : BOOLEAN] :
      /\ r.failAt = "none" \/ ~r.redactOk
      /\ r.parent.mxc.hs = "" => (r.failAt = "none" /\ ~r.redactOk /\ r.data = "img1")
      /\ r.failAt # "none" => r.data = "img1"
      /\ r.failAt = "upload" => r.parent.mxc.hs # OwnHomeserver }

(* Bot.handleReaction for a reaction of the bot's own user.                *)
React ==
  \E run \in WorkflowRuns :
    LET r == processReaction(collection, run)
    IN /\ Step
       /\ collection' = r.coll
       /\ packs' = packs
       /\ last' = [Op("collect", <<>>, <<>>, r.id, r.err) EXCEPT
                     !.uploaded = r.uploaded,
                     !.captioned = r.captioned,
                     !.redacted = r.redacted,
                     !.arg = run.parent.mxc]

PackCreate ==
  \E name \in DisplayNames :
    LET r == packCreate(packs, name)
    IN /\ Step
       /\ packs' = r.packs
       /\ UNCHANGED collection
       /\ last' = [Op("packCreate", PackID(name), <<>>, "", r.err) EXCEPT
                     !.arg = name]

PackAdd ==
  \E packName \in PackNames, ids \in IdLists :
    LET r == AddToPack(packs, collection, packName, ids)
    IN /\ Step
       /\ packs' = r.packs
       /\ collection' = r.coll
       /\ last' = Op("AddToPack", packName, ids, "", r.err)

PackRemove ==
  \E packName \in PackNames, ids \in IdLists :
    LET r == RemoveFromPack(packs, collection, packName, ids)
    IN /\ Step
       /\ packs' = r.packs
       /\ collection' = r.coll
       /\ last' = Op("RemoveFromPack", packName, ids, "", r.err)

StickerDelete ==
  \E id \in AllIds :
    LET r == DeleteSticker(packs, collection, id)
    IN /\ Step
       /\ packs' = r.packs
       /\ collection' = r.coll
       /\ last' = Op("DeleteSticker", <<>>, <<>>, id, r.err)

StickerName ==
  \E id \in AllIds, name \in Shortcodes :
    LET r == SetStickerName(collection, id, name)
    IN /\ Step
       /\ collection' = r.coll
       /\ UNCHANGED packs
       /\ last' = Op("SetStickerName", <<>>, <<>>, id, r.err)

StickerUsage ==
  \E id \in AllIds, usageStr \in UsageInputs :
    LET r == stickerUsage(collection, id, usageStr)
    IN /\ Step
       /\ collection' = r.coll
       /\ UNCHANGED packs
       /\ last' = [Op("SetStickerUsage", <<>>, <<>>, id, r.err) EXCEPT
                     !.arg = usageStr]

PackAvatar ==
  \E packName \in PackNames, url \in AvatarURLs :
    LET r == SetPackAvatar(packs, packName, url)
    IN /\ Step
       /\ packs' = r.packs
       /\ UNCHANGED collection
       /\ last' = Op("SetPackAvatar", packName, <<>>, "", r.err)

PackUsage ==
  \E packName \in PackNames, usage \in PackUsages :
    LET r == SetPackUsage(packs, packName, usage)
    IN /\ Step
       /\ packs' = r.packs
       /\ UNCHANGED collection
       /\ last' = Op("SetPackUsage", packName, <<>>, "", r.err)

PackPublish ==
  \E packName \in PackNames, roomID \in Rooms, sendOk \in BOOLEAN :
    LET r == PublishPack(packs, collection, packName, roomID, sendOk)
    IN /\ Step
       /\ packs' = r.packs
       /\ UNCHANGED collection
       /\ last' = [Op("PublishPack", packName, <<>>, roomID, r.err) EXCEPT
                     !.attempted = r.attempted,
                     !.event = r.event]

(* pack publish <pack> without a room; the order of the map iteration and *)
(* the outcome of the send are chosen for the rooms of the ledger.         *)
PackRepublish ==
  \E packName \in PackNames :
    LET saved == IF PackIndex(packs, packName) = 0 THEN {}
                 ELSE LedgerRooms(packs[PackIndex(packs, packName)])
    IN \E order \in Orders(saved), okRooms \in SUBSET saved :
         LET r == packPublish(packs, collection, packName, order, okRooms)
         IN /\ Step
            /\ packs' = r.packs
            /\ UNCHANGED collection
            /\ last' = [Op("packPublish", packName, <<>>, "", r.err) EXCEPT
                          !.calls = r.calls,
                          !.successCount = r.successCount,
                          !.errors = r.errors]

Next ==
  \/ React
  \/ PackCreate
  \/ PackAdd
  \/ PackRemove
  \/ StickerDelete
  \/ StickerName
  \/ StickerUsage
  \/ PackAvatar
  \/ PackUsage
  \/ PackPublish
  \/ PackRepublish

Spec == Init /\ [][Next]_vars

(***************************************************************************)
(* The storage package called directly, as its tests and the CLI do: the   *)
(* operations of the two stores on the same data directory, the ones no    *)
(* command reaches with every argument included (GetSticker,               *)
(* UpdateAltText, GetPack, UpdatePublished).                               *)
(***************************************************************************)
AltTexts == { <<"e">> }

GetStickerCall ==
  \E id \in AllIds :
    LET r == GetSticker(collection, id)
    IN /\ Step
       /\ UNCHANGED <<collection, packs>>
       /\ last' = Op("GetSticker", <<>>, <<>>, id, r.err)

UpdateAltTextCall ==
  \E id \in AllIds, altText \in AltTexts :
    LET r == UpdateAltText(collection, id, altText)
    IN /\ Step
       /\ collection' = r.coll
       /\ UNCHANGED packs
       /\ last' = Op("UpdateAltText", <<>>, <<>>, id, r.err)

GetPackCall ==
  \E packName \in PackNames :
    LET r == GetPack(packs, packName)
    IN /\ Step
       /\ UNCHANGED <<collection, packs>>
       /\ last' = Op("GetPack", packName, <<>>, "", r.err)

UpdatePublishedCall ==
  \E packName \in PackNames, roomID \in Rooms, stateKey \in PackNames :
    LET r == UpdatePublished(packs, packName, roomID, stateKey)
    IN /\ Step
       /\ packs' = r.packs
       /\ UNCHANGED collection
       /\ last' = [Op("UpdatePublished", packName, <<>>, roomID, r.err) EXCEPT
                     !.arg = stateKey]

StorageNext ==
  \/ GetStickerCall
  \/ UpdateAltTextCall
  \/ StickerDelete
  \/ StickerName
  \/ StickerUsage
  \/ GetPackCall
  \/ PackAvatar
  \/ PackUsage
  \/ UpdatePublishedCall
  \/ PackAdd
  \/ PackRemove

StorageSpec == Init /\ [][StorageNext]_vars

(***************************************************************************)
(* The command router on its own: message bodies of the bot's user, well   *)
(* formed and not.                                                         *)
(***************************************************************************)
CmdUnknown == <<"f", "o", "o">>

PackP == <<"p">>

WellFormedCommands ==
  { <<CmdPack, CmdList>>,
    <<CmdPack, CmdCreate, PackP>>,
    <<CmdPack, CmdCreate, <<"F">>, <<"M">> >>,
    <<CmdPack, CmdAdd, PackP, Tok("sha1")>>,
    <<CmdPack, CmdAdd, PackP, Tok("sha2")>>,
    <<CmdPack, CmdRemove, PackP, Tok("sha1")>>,
    <<CmdPack, CmdShow, PackP>>,
    <<CmdPack, CmdPublish, PackP>>,
    <<CmdPack, CmdPublish, PackP, Tok("!r1")>>,
    <<CmdPack, CmdPublish, PackP, Tok("!r2")>>,
    <<CmdPack, CmdAvatar, PackP, Tok("mxc://own/icon")>>,
    <<CmdPack, CmdUsage, PackP, WordEmoticon>>,
    <<CmdList, CmdUnsorted>>,
    <<CmdShow, Tok("sha1")>>,
    <<CmdDelete, Tok("sha1")>>,
    <<CmdRemove, Tok("sha2")>>,
    <<CmdUsage, Tok("sha1"), WordSticker>>,
    <<CmdName, Tok("sha1"), Tok("cat")>> }

MalformedCommands ==
  { <<>>,
    <<CmdUnknown>>,
    <<CmdUnknown, PackP, Tok("sha1")>>,
    <<CmdCreate, PackP>>,
    <<CmdPack>>,
    <<CmdPack, CmdUnknown>>,
    <<CmdPack, CmdUnknown, PackP, Tok("sha1")>>,
    <<CmdPack, CmdCreate>>,
    <<CmdPack, CmdAdd>>,
    <<CmdPack, CmdAdd, PackP>>,
    <<CmdPack, CmdRemove>>,
    <<CmdPack, CmdRemove, PackP>>,
    <<CmdPack, CmdShow>>,
    <<CmdPack, CmdPublish>>,
    <<CmdPack, CmdAvatar>>,
    <<CmdPack, CmdAvatar, PackP>>,
    <<CmdPack, CmdUsage>>,
    <<CmdPack, CmdUsage, PackP>>,
    <<CmdList>>,
    <<CmdList, CmdUnknown>>,
    <<CmdShow>>,
    <<CmdDelete>>,
    <<CmdRemove>>,
    <<CmdUsage>>,
    <<CmdUsage, Tok("sha1")>>,
    <<CmdName>>,
    <<CmdName, Tok("sha1")>> }

CommandLines == WellFormedCommands \cup MalformedCommands

Envs(args) ==
  IF Len(args) >= 2 /\ args[1] = CmdPack /\ args[2] = CmdPublish
  THEN [sendOk : BOOLEAN, okRooms : SUBSET Rooms,
        order : { o \in [1..Cardinality(Rooms) -> Rooms] :
                    \A i, j \in 1..Cardinality(Rooms) : o[i] = o[j] => i = j }]
  ELSE { [sendOk |-> TRUE, okRooms |-> {},
          order |-> CHOOSE o \in [1..Cardinality(Rooms) -> Rooms] :
                      \A i, j \in 1..Cardinality(Rooms) : o[i] = o[j] => i = j] }

(* Bot.handleMessage for a "!sticker ..." text message of the bot's user. *)
ExecuteCommand ==
  \E args \in CommandLines :
    \E env \in Envs(args) :
      LET r == executeCommand(packs, collection, args, env)
      IN /\ Step
         /\ packs' = r.packs
         /\ collection' = r.coll
         /\ last' = [Op("executeCommand", <<>>, <<>>, "", r.reply) EXCEPT
                       !.arg = args,
                       !.attempted = r.attempted,
                       !.calls = r.calls]

CommandNext == ExecuteCommand

CommandSpec == Init /\ [][CommandNext]_vars

(***************************************************************************)
(* Two callers of the storage package on one data directory, and a reader. *)
(* A storage function reads a file whole (LoadPacks, LoadCollection),      *)
(* changes its copy in memory and writes the file whole (SaveCollection,   *)
(* SavePacks); nothing is locked, so the steps of the callers interleave   *)
(* at the reads and writes.  Here last holds, for each caller, the call it *)
(* makes, the storage function it is in (cur: the call, or a              *)
(* RemoveFromPack of the delete cascade), where it is (pc: the file access *)
(* it makes next), its copies of the two files (mp, mc), the packs the     *)
(* cascade has still to visit, its error, and for the claims the callers   *)
(* that held a copy of the file, to be saved later, when this caller wrote *)
(* it (overColl, overPacks); observed is what the reader loaded last.      *)
(* prev holds the files as they were before the calls began.               *)
(***************************************************************************)
Callers == {1, 2}

NoCall == [name |-> "none", pack |-> <<>>, id |-> ""]

StorageCalls ==
  { [name |-> "AddSticker", pack |-> <<>>, id |-> i] : i \in AllIds }
    \cup { [name |-> n, pack |-> <<"p">>, id |-> i] :
             n \in {"AddToPack", "RemoveFromPack"}, i \in AllIds }
    \cup { [name |-> "DeleteSticker", pack |-> <<>>, id |-> i] : i \in AllIds }

Idle ==
  [call |-> NoCall, cur |-> NoCall, pc |-> "idle", mp |-> <<>>, mc |-> <<>>,
   todo |-> <<>>, err |-> "none", overColl |-> {}, overPacks |-> {}]

NotObserved == [seen |-> FALSE, packs |-> <<>>, coll |-> <<>>]

ConcInit ==
  \E n \in Seeds :
    /\ collection = SeedCollection(n)
    /\ packs = SeedPacks(n)
    /\ last = [op |-> "storage calls", callers |-> [c \in Callers |-> Idle],
               observed |-> NotObserved]
    /\ prev = [packs |-> SeedPacks(n), coll |-> SeedCollection(n)]
    /\ steps = 0

(* os.WriteFile: the bytes given replace the file.                         *)
(* Faulty variant: items of the file that the copy lacks are kept.        *)
SaveCollectionKeepsFile(onDisk, coll) ==
  coll \o SelectSeq(onDisk, LAMBDA st : StickerIndex(coll, st.ID) = 0)

(* Faulty variant: the write adds the last record of the copy to the file. *)
SaveCollectionAppendsLast(onDisk, coll) ==
  IF coll = <<>> THEN onDisk ELSE Append(onDisk, coll[Len(coll)])

SaveCollection(onDisk, coll) == coll

SavePacks(onDisk, pks) == pks

(* What the storage function the caller is in writes, from its copies.    *)
Computed(cl) ==
  CASE cl.cur.name = "AddSticker" ->
         [packs |-> cl.mp,
          coll |-> AddSticker(cl.mc, NewSticker(cl.cur.id,
                                     [hs |-> "own", media |-> "m1"],
                                     [hs |-> "own", media |-> "m1"],
                                     <<"b">>, <<"c">>)),
          err |-> "none"]
    [] cl.cur.name = "AddToPack" ->
         AddToPack(cl.mp, cl.mc, cl.cur.pack, <<cl.cur.id>>)
    [] cl.cur.name = "RemoveFromPack" ->
         RemoveFromPack(cl.mp, cl.mc, cl.cur.pack, <<cl.cur.id>>)
    [] cl.cur.name = "DeleteSticker" ->
         IF StickerIndex(cl.mc, cl.cur.id) = 0
         THEN [packs |-> cl.mp, coll |-> cl.mc, err |-> "sticker not found"]
         ELSE [packs |-> cl.mp,
               coll |-> RemoveAt(cl.mc, StickerIndex(cl.mc, cl.cur.id)),
               err |-> "none"]

(* DeleteSticker, lines 107-113: the next RemoveFromPack of the cascade,  *)
(* or the end of the call.                                                 *)
NextInCascade(cl) ==
  IF cl.todo = <<>> THEN [cl EXCEPT !.pc = "done", !.cur = cl.call]
  ELSE [cl EXCEPT !.cur = [name |-> "RemoveFromPack", pack |-> Head(cl.todo),
                           id |-> cl.call.id],
                  !.todo = Tail(cl.todo),
                  !.pc = "loadPacks"]

(* The storage function the caller is in returns err: the call ends with  *)
(* it, except in the cascade, where it is logged and the loop goes on.     *)
Return(cl, err) ==
  IF cl.call.name = "DeleteSticker" /\ cl.cur.name = "RemoveFromPack"
  THEN NextInCascade(cl)
  ELSE [cl EXCEPT !.pc = "done", !.err = err]

SetCaller(c, cl) ==
  last' = [last EXCEPT !.callers[c] = cl]

Begin(c) ==
  /\ last.callers[c].pc = "idle"
  /\ \E call \in StorageCalls :
       SetCaller(c, [Idle EXCEPT
                       !.call = call, !.cur = call,
                       !.pc = IF call.name \in {"AddToPack", "RemoveFromPack"}
                              THEN "loadPacks" ELSE "loadColl"])
  /\ UNCHANGED <<collection, packs, prev, steps>>

LoadPacksStep(c) ==
  /\ last.callers[c].pc = "loadPacks"
  /\ SetCaller(c, [last.callers[c] EXCEPT !.mp = packs, !.pc = "loadColl"])
  /\ UNCHANGED <<collection, packs, prev, steps>>

(* LoadCollection and the work on the copies up to the first write.       *)
LoadCollectionStep(c) ==
  /\ last.callers[c].pc = "loadColl"
  /\ LET cl == [last.callers[c] EXCEPT !.mc = collection]
     IN IF Computed(cl).err # "none"
        THEN SetCaller(c, Return(cl, Computed(cl).err))
        ELSE SetCaller(c, [cl EXCEPT !.pc = "saveColl"])
  /\ UNCHANGED <<collection, packs, prev, steps>>

SaveCollectionStep(c) ==
  /\ last.callers[c].pc = "saveColl"
  /\ \E ok \in BOOLEAN :
       LET cl == last.callers[c]
           wrote == [cl EXCEPT !.overColl =
                       { d \in Callers \ {c} : last.callers[d].pc = "saveColl" }]
       IN IF ~ok
          THEN /\ SetCaller(c, Return(cl, "failed to write collection file"))
               /\ UNCHANGED collection
          ELSE /\ collection' = SaveCollection(collection, Computed(cl).coll)
               /\ SetCaller(c,
                    CASE cl.cur.name = "AddSticker" ->
                           [wrote EXCEPT !.pc = "done"]
                      [] cl.cur.name = "DeleteSticker" ->
                           NextInCascade([wrote EXCEPT !.todo =
                             cl.mc[StickerIndex(cl.mc, cl.cur.id)].InPacks])
                      [] OTHER -> [wrote EXCEPT !.pc = "savePacks"])
  /\ UNCHANGED <<packs, prev, steps>>

SavePacksStep(c) ==
  /\ last.callers[c].pc = "savePacks"
  /\ \E ok \in BOOLEAN :
       LET cl == last.callers[c]
           wrote == [cl EXCEPT !.overPacks =
                       { d \in Callers \ {c} :
                           /\ last.callers[d].cur.name \in {"AddToPack", "RemoveFromPack"}
                           /\ last.callers[d].pc \in {"loadColl", "saveColl", "savePacks"} }]
       IN IF ~ok
          THEN /\ SetCaller(c, Return(cl, "failed to write packs file"))
               /\ UNCHANGED packs
          ELSE /\ packs' = SavePacks(packs, Computed(cl).packs)
               /\ SetCaller(c, IF cl.call.name = "DeleteSticker"
                               THEN NextInCascade(wrote)
                               ELSE [wrote EXCEPT !.pc = "done"])
  /\ UNCHANGED <<collection, prev, steps>>

(* A reader: LoadPacks and LoadCollection with no write in between.       *)
ReadStores ==
  /\ last' = [last EXCEPT !.observed =
                [seen |-> TRUE, packs |-> packs, coll |-> collection]]
  /\ UNCHANGED <<collection, packs, prev, steps>>

ConcNext ==
  \/ \E c \in Callers : Begin(c)
  \/ \E c \in Callers : LoadPacksStep(c)
  \/ \E c \in Callers : LoadCollectionStep(c)
  \/ \E c \in Callers : SaveCollectionStep(c)
  \/ \E c \in Callers : SavePacksStep(c)
  \/ ReadStores

ConcSpec == ConcInit /\ [][ConcNext]_vars

(***************************************************************************)
(* Publishing on its own: stores in which a pack has members (one item; two *)
(* items; an item whose parent event had no body and whose caption came    *)
(* back blank), the commands that set what a payload shows, and publish.   *)
(***************************************************************************)
PublishSeeds == {1, 2, 3}

PublishSeedCollection(n) ==
  LET blank == collectSticker(<<>>, [hs |-> "own", media |-> "m1"], <<>>,
                              "img1", "none", [hs |-> "own", media |-> "up"],
                              <<" ">>).coll
  IN CASE n = 1 -> SeedCollection(3)
       [] n = 2 -> AddToPack(SeedPacks(2), SeedCollection(2), <<"p">>,
                             <<"sha1", "sha2">>).coll
       [] OTHER -> AddToPack(SeedPacks(1), blank, <<"p">>, <<"sha1">>).coll

PublishSeedPacks(n) ==
  CASE n = 1 -> SeedPacks(3)
    [] n = 2 -> AddToPack(SeedPacks(2), SeedCollection(2), <<"p">>,
                          <<"sha1", "sha2">>).packs
    [] OTHER -> AddToPack(SeedPacks(1), SeedCollection(1), <<"p">>,
                          <<"sha1">>).packs

PublishInit ==
  \E n \in PublishSeeds :
    /\ collection = PublishSeedCollection(n)
    /\ packs = PublishSeedPacks(n)
    /\ last = [op |-> "init", pack |-> <<>>, ids |-> <<>>, id |-> "",
               err |-> "none", uploaded |-> FALSE, redacted |-> FALSE,
               attempted |-> FALSE, event |-> NoEvent, arg |-> <<>>,
               calls |-> <<>>, successCount |-> 0, errors |-> <<>>,
               captioned |-> FALSE, repeat |-> FALSE]
    /\ prev = [packs |-> PublishSeedPacks(n), coll |-> PublishSeedCollection(n)]
    /\ steps = 0

PublishNext ==
  \/ StickerName
  \/ StickerUsage
  \/ PackUsage
  \/ PackPublish

PublishSpec == PublishInit /\ [][PublishNext]_vars

(***************************************************************************)
(* The two event handlers NewBot registers with the syncer, on the events  *)
(* the sync loop delivers.  An event has a sender, a type, the key of a    *)
(* reaction, and the message type, body and relation type of a message;    *)
(* origin tells who sent it (the user from a client, or the bot through    *)
(* editMessage) and is not read by the handlers.  The bot is logged in as  *)
(* its user, so the edits it sends come back from sync with that sender.   *)
(***************************************************************************)
MaxEvents == 2

StickerPrefix == <<"!", "s", "t", "i", "c", "k", "e", "r">>

validCommands == {"!yoink", "!nom", "!grab"}

OtherUser == "@other:own"

WhiteSpace == {" ", "LF", "CR"}

RECURSIVE FieldEnd(_, _)
FieldEnd(s, i) ==
  IF i > Len(s) \/ s[i] \in WhiteSpace THEN i - 1 ELSE FieldEnd(s, i + 1)

RECURSIVE Fields(_)
Fields(s) ==
  IF s = <<>> THEN <<>>
  ELSE IF Head(s) \in WhiteSpace THEN Fields(Tail(s))
  ELSE <<SubSeq(s, 1, FieldEnd(s, 1))>>
         \o Fields(SubSeq(s, FieldEnd(s, 1) + 1, Len(s)))

(* executeCommand from the message body: the text after "!sticker" is cut  *)
(* into fields.                                                            *)
CommandArgs(body) ==
  IF Len(body) <= Len(StickerPrefix) THEN <<>>
  ELSE Fields(SubSeq(body, Len(StickerPrefix) + 1, Len(body)))

Message(sender, msgtype, body, relType, origin) ==
  [sender |-> sender, type |-> "m.room.message", key |-> "",
   msgtype |-> msgtype, body |-> body, relType |-> relType,
   origin |-> origin]

Reaction(sender, key) ==
  [sender |-> sender, type |-> "m.reaction", key |-> key, msgtype |-> "",
   body |-> <<>>, relType |-> "m.annotation", origin |-> "user"]

CommandBody(args) == StickerPrefix \o <<" ">> \o JoinArgs(args)

CommandBodies ==
  { CommandBody(<<CmdPack, CmdCreate, PackP>>),
    <<" ">> \o CommandBody(<<CmdPack, CmdAdd, PackP, Tok("sha1")>>) \o <<"LF">>,
    CommandBody(<<CmdPack, CmdPublish, PackP, Tok("!r1")>>),
    CommandBody(<<CmdDelete, Tok("sha1")>>),
    StickerPrefix }

Events ==
  { Message(BotUser, "m.text", b, "", "user") : b \in CommandBodies }
    \cup { Reaction(BotUser, k) : k \in validCommands \cup {"+1"} }
    \cup { Message(BotUser, "m.text", <<"h", "i", " ">> \o StickerPrefix, "", "user"),
           Message(BotUser, "m.text", CommandBody(<<CmdPack, CmdCreate, PackP>>),
                   "m.replace", "user"),
           Message(BotUser, "m.image", CommandBody(<<CmdPack, CmdCreate, PackP>>),
                   "", "user"),
           Message(OtherUser, "m.text", CommandBody(<<CmdPack, CmdCreate, PackP>>),
                   "", "user"),
           Reaction(OtherUser, "!yoink"),
           [sender |-> BotUser, type |-> "m.room.member", key |-> "",
            msgtype |-> "", body |-> <<>>, relType |-> "", origin |-> "user"] }

(* What a handler did with one event: the stores it left, the number of    *)
(* executeCommand calls, the calls it made on the Matrix client and the    *)
(* captioning service, and the edit it sent (a sequence of at most one).   *)
Ignored(pks, coll) ==
  [packs |-> pks, coll |-> coll, executed |-> 0, transport |-> {},
   edits |-> <<>>, reply |-> ""]

Executed(body, r) ==
  [packs |-> r.packs, coll |-> r.coll, executed |-> 1,
   transport |-> {"edit"} \cup (IF r.attempted THEN {"state"} ELSE {}),
   edits |-> << Message(BotUser, "m.text", body \o <<"LF", "LF", r.reply>>,
                        "m.replace", "bot") >>,
   reply |-> r.reply]

Collected(pks, r) ==
  [packs |-> pks, coll |-> r.coll, executed |-> 0,
   transport |-> {"fetch"}
                   \cup (IF r.uploaded THEN {"upload"} ELSE {})
                   \cup (IF r.captioned THEN {"caption"} ELSE {})
                   \cup (IF r.err = "none" THEN {"redact"} ELSE {}),
   edits |-> <<>>, reply |-> r.err]

(* Faulty variant: edits are not skipped.                                  *)
handleMessageRunsEdits(pks, coll, evt, env) ==
  IF evt.sender # BotUser THEN Ignored(pks, coll)
  ELSE IF evt.msgtype # "m.text" THEN Ignored(pks, coll)
  ELSE IF ~IsPrefix(StickerPrefix, TrimSpace(evt.body)) THEN Ignored(pks, coll)
  ELSE Executed(TrimSpace(evt.body),
                executeCommand(pks, coll, CommandArgs(TrimSpace(evt.body)), env))

(* Faulty variant: messages of any sender are run.                         *)
handleMessageAnySender(pks, coll, evt, env) ==
  IF evt.relType = "m.replace" THEN Ignored(pks, coll)
  ELSE IF evt.msgtype # "m.text" THEN Ignored(pks, coll)
  ELSE IF ~IsPrefix(StickerPrefix, TrimSpace(evt.body)) THEN Ignored(pks, coll)
  ELSE Executed(TrimSpace(evt.body),
                executeCommand(pks, coll, CommandArgs(TrimSpace(evt.body)), env))

handleMessage(pks, coll, evt, env) ==
  IF evt.sender # BotUser THEN Ignored(pks, coll)
  ELSE IF evt.relType = "m.replace" THEN Ignored(pks, coll)
  ELSE IF evt.msgtype # "m.text" THEN Ignored(pks, coll)
  ELSE IF ~IsPrefix(StickerPrefix, TrimSpace(evt.body)) THEN Ignored(pks, coll)
  ELSE Executed(TrimSpace(evt.body),
                executeCommand(pks, coll, CommandArgs(TrimSpace(evt.body)), env))

handleReaction(pks, coll, evt, run) ==
  IF evt.sender # BotUser THEN Ignored(pks, coll)
  ELSE IF evt.key \notin validCommands THEN Ignored(pks, coll)
  ELSE Collected(pks, processReaction(coll, run))

EventRuns ==
  { r \in WorkflowRuns : r.data = "img1" /\ r.failAt \in {"none", "download"} }

EventInit ==
  \E n \in Seeds :
    /\ collection = SeedCollection(n)
    /\ packs = SeedPacks(n)
    /\ last = [op |-> "sync", evt |-> Reaction(OtherUser, "+1"),
               inbox |-> <<>>, sent |-> 0, executed |-> 0, executions |-> 0,
               edits |-> 0, transport |-> {}, reply |-> ""]
    /\ prev = [packs |-> SeedPacks(n), coll |-> SeedCollection(n)]
    /\ steps = 0

(* Someone sends an event to a room the bot's user is in.                  *)
Send ==
  \E evt \in Events :
    /\ last.sent < MaxEvents
    /\ last' = [last EXCEPT !.op = "sync", !.inbox = Append(@, evt),
                            !.sent = @ + 1]
    /\ UNCHANGED <<collection, packs, prev, steps>>

(* The syncer hands the next event to the handler of its type; an edit    *)
(* that was sent (editOk) is delivered later like any other event.         *)
Handled(evt, r, editOk) ==
  /\ collection' = r.coll
  /\ packs' = r.packs
  /\ prev' = [packs |-> packs, coll |-> collection]
  /\ last' = [last EXCEPT !.op = "event", !.evt = evt,
                          !.inbox = Tail(@) \o (IF editOk THEN r.edits ELSE <<>>),
                          !.executed = r.executed,
                          !.executions = @ + r.executed,
                          !.edits = Len(r.edits),
                          !.transport = r.transport,
                          !.reply = r.reply]
  /\ UNCHANGED steps

DeliverReaction ==
  /\ last.inbox # <<>>
  /\ Head(last.inbox).type = "m.reaction"
  /\ \E run \in EventRuns :
       Handled(Head(last.inbox),
               handleReaction(packs, collection, Head(last.inbox), run), FALSE)

DeliverMessage ==
  /\ last.inbox # <<>>
  /\ Head(last.inbox).type = "m.room.message"
  /\ \E env \in Envs(CommandArgs(TrimSpace(Head(last.inbox).body))),
        editOk \in BOOLEAN :
       Handled(Head(last.inbox),
               handleMessage(packs, collection, Head(last.inbox), env), editOk)

DeliverOther ==
  /\ last.inbox # <<>>
  /\ Head(last.inbox).type \notin {"m.reaction", "m.room.message"}
  /\ Handled(Head(last.inbox), Ignored(packs, collection), FALSE)

EventNext ==
  \/ Send
  \/ DeliverReaction
  \/ DeliverMessage
  \/ DeliverOther

EventSpec == EventInit /\ [][EventNext]_vars

(***************************************************************************)
(* One run of processReaction for a reaction of the bot's user with a      *)
(* collection command as key, call by call.  last holds the inputs of the  *)
(* run (what the parent event is, the bytes behind it, and which call      *)
(* fails), the statement the run is at (pc), the calls it has made on the  *)
(* Matrix client, the captioning service and the collection store (log),   *)
(* and the error it returned.                                              *)
(***************************************************************************)
RunInputs ==
  { [run |-> r, eventAt |-> e] : r \in WorkflowRuns, e \in {"none"} }
    \cup { [run |-> r, eventAt |-> e] :
             r \in { w \in WorkflowRuns :
                       /\ w.parent.mxc.hs = OwnHomeserver
                       /\ w.data = "img1" /\ w.failAt = "none" /\ ~w.redactOk },
             e \in {"getEvent", "extract"} }

RunInit ==
  \E n \in Seeds, in \in RunInputs :
    /\ collection = SeedCollection(n)
    /\ packs = SeedPacks(n)
    /\ last = [op |-> "run", run |-> in.run, eventAt |-> in.eventAt,
               pc |-> "getEvent", log |-> <<>>, err |-> "none",
               redacted |-> FALSE]
    /\ prev = [packs |-> SeedPacks(n), coll |-> SeedCollection(n)]
    /\ steps = 0

RunAt(pc) == last.op = "run" /\ last.pc = pc

Goto(pc, called) ==
  /\ last' = [last EXCEPT !.pc = pc, !.log = @ \o called]
  /\ UNCHANGED <<collection, packs, prev, steps>>

Fail(err, called) ==
  /\ last' = [last EXCEPT !.pc = "failed", !.err = err, !.log = @ \o called]
  /\ UNCHANGED <<collection, packs, prev, steps>>

needsRehost(run) == run.parent.mxc.hs # OwnHomeserver

GetEventStep ==
  /\ RunAt("getEvent")
  /\ IF last.eventAt = "getEvent"
     THEN Fail("failed to get parent event", <<"getEvent">>)
     ELSE Goto("extract", <<"getEvent">>)

ExtractImageDataStep ==
  /\ RunAt("extract")
  /\ IF last.eventAt = "extract"
     THEN Fail("parent event is not a valid image/sticker", <<>>)
     ELSE Goto("parse", <<>>)

ParseStep ==
  /\ RunAt("parse")
  /\ IF last.run.parent.mxc.hs = ""
     THEN Fail("invalid MXC URI", <<>>)
     ELSE Goto("download", <<>>)

DownloadMediaStep ==
  /\ RunAt("download")
  /\ IF last.run.failAt = "download"
     THEN Fail("download failed", <<"fetch">>)
     ELSE Goto("info", <<"fetch">>)

GetImageInfoStep ==
  /\ RunAt("info")
  /\ IF last.run.failAt = "decode"
     THEN Fail("failed to get image info", <<>>)
     ELSE Goto(IF needsRehost(last.run) THEN "upload" ELSE "caption", <<>>)

UploadMediaStep ==
  /\ RunAt("upload")
  /\ IF last.run.failAt = "upload"
     THEN Fail("upload failed", <<"upload">>)
     ELSE Goto("caption", <<"upload">>)

(* Faulty variant: a failed caption request is made once more.            *)
GenerateAltTextRetries ==
  /\ RunAt("caption")
  /\ IF last.run.failAt = "caption"
     THEN IF Len(SelectSeq(last.log, LAMBDA c : c = "caption")) = 0
          THEN Goto("caption", <<"caption">>)
          ELSE Fail("alt-text generation failed", <<"caption">>)
     ELSE Goto("persist", <<"caption">>)

GenerateAltTextStep ==
  /\ RunAt("caption")
  /\ IF last.run.failAt = "caption"
     THEN Fail("alt-text generation failed", <<"caption">>)
     ELSE Goto("persist", <<"caption">>)

AddStickerStep ==
  /\ RunAt("persist")
  /\ IF last.run.failAt = "persist"
     THEN Fail("failed to save sticker", <<"persist">>)
     ELSE /\ collection' =
               AddSticker(collection,
                          NewSticker(HashImage(last.run.data),
                                     last.run.parent.mxc,
                                     IF needsRehost(last.run)
                                     THEN last.run.upAddr
                                     ELSE last.run.parent.mxc,
                                     last.run.parent.body,
                                     CleanAltText(last.run.parent.caption)))
          /\ last' = [last EXCEPT !.pc = "redact", !.log = @ \o <<"persist">>]
          /\ UNCHANGED <<packs, prev, steps>>

RedactReactionStep ==
  /\ RunAt("redact")
  /\ last' = [last EXCEPT !.pc = "done", !.log = @ \o <<"redact">>,
                          !.redacted = last.run.redactOk]
  /\ UNCHANGED <<collection, packs, prev, steps>>

RunNext ==
  \/ GetEventStep
  \/ ExtractImageDataStep
  \/ ParseStep
  \/ DownloadMediaStep
  \/ GetImageInfoStep
  \/ UploadMediaStep
  \/ GenerateAltTextStep
  \/ AddStickerStep
  \/ RedactReactionStep

RunSpec == RunInit /\ [][RunNext]_vars

(* Every call of a collaborator returns and the goroutine of the handler   *)
(* goes on to its next statement.                                          *)
RunFairSpec == RunSpec /\ WF_vars(RunNext)

(***************************************************************************)
(* The life of a Bot between NewBot and the return of Run: the goroutine   *)
(* Run starts around SyncWithContext, the select loop of Run, and the      *)
(* goroutine that calls Stop.  A sync token is a number, 0 for the empty   *)
(* string.  last holds the token in the sync store (simpleStore), the      *)
(* fields b.nextBatch and b.config.Matrix.NextBatch, the token in the      *)
(* config file, whether b.ctx is cancelled, the content of the syncErr     *)
(* channel, and where each goroutine is; a goroutine in saveNextBatch      *)
(* holds the token it loaded in nb.  The sync loop stores a token only     *)
(* while the context is not cancelled, and ends with context.Canceled once *)
(* it is.                                                                  *)
(***************************************************************************)
MaxBatch == 2

BotInit ==
  \E t \in {0, 1} :
    /\ collection = SeedCollection(0)
    /\ packs = SeedPacks(0)
    /\ last = [op |-> "bot", store |-> t, nextBatch |-> t, config |-> t,
               file |-> t, cancelled |-> FALSE, syncErr |-> "none",
               sync |-> "syncing", saveFailed |-> FALSE,
               run |-> [pc |-> "select", nb |-> 0, from |-> "none",
                        savedFirst |-> FALSE, result |-> "none"],
               stop |-> [pc |-> "idle", nb |-> 0]]
    /\ prev = [packs |-> SeedPacks(0), coll |-> SeedCollection(0)]
    /\ steps = 0

BotStep(new) ==
  /\ last.op = "bot"
  /\ last' = new
  /\ UNCHANGED <<collection, packs, prev, steps>>

(* The sync loop got a response: simpleStore.SaveNextBatch.                *)
SyncResponse ==
  /\ last.op = "bot"
  /\ last.sync = "syncing"
  /\ ~last.cancelled
  /\ last.store < MaxBatch
  /\ BotStep([last EXCEPT !.store = @ + 1])

(* SyncWithContext returns an error other than context.Canceled.           *)
SyncFails ==
  /\ last.op = "bot"
  /\ last.sync = "syncing"
  /\ ~last.cancelled
  /\ BotStep([last EXCEPT !.sync = "exited", !.syncErr = "sync failed"])

(* SyncWithContext returns context.Canceled: nothing is sent.              *)
SyncCancelled ==
  /\ last.op = "bot"
  /\ last.sync = "syncing"
  /\ last.cancelled
  /\ BotStep([last EXCEPT !.sync = "exited"])

(* saveNextBatch, for the goroutine whose state is g (run or stop): the    *)
(* load from the store; the two assignments; config.Save.                  *)
SaveLoaded(g) == [g EXCEPT !.pc = "assign", !.nb = last.store]

SaveWrites(ok) == IF ok THEN last.config ELSE last.file

RunAtSelect == last.op = "bot" /\ last.run.pc = "select"

(* case <-firstSyncCheck.C                                                 *)
RunFirstSyncCheck ==
  /\ RunAtSelect
  /\ ~last.run.savedFirst
  /\ last.store # 0
  /\ last.store # last.nextBatch
  /\ BotStep([last EXCEPT !.nextBatch = last.store,
                          !.run.pc = "load", !.run.from = "first"])

(* case <-ticker.C                                                         *)
RunTicker ==
  /\ RunAtSelect
  /\ BotStep([last EXCEPT !.run.pc = "load", !.run.from = "ticker"])

RunSaveLoad ==
  /\ last.op = "bot"
  /\ last.run.pc = "load"
  /\ BotStep([last EXCEPT !.run = SaveLoaded(@)])

RunSaveAssign ==
  /\ last.op = "bot"
  /\ last.run.pc = "assign"
  /\ BotStep([last EXCEPT !.nextBatch = last.run.nb,
                          !.config = last.run.nb,
                          !.run.pc = "write"])

RunSaveWrite ==
  /\ last.op = "bot"
  /\ last.run.pc = "write"
  /\ \E ok \in BOOLEAN :
       BotStep([last EXCEPT !.file = SaveWrites(ok),
                            !.saveFailed = @ \/ ~ok,
                            !.run.pc = "select",
                            !.run.savedFirst =
                               @ \/ (ok /\ last.run.from = "first")])

(* case err := <-syncErr                                                   *)
RunSyncErr ==
  /\ RunAtSelect
  /\ last.syncErr # "none"
  /\ BotStep([last EXCEPT !.syncErr = "none", !.run.pc = "returned",
                          !.run.result = "sync error"])

(* case <-b.ctx.Done()                                                     *)
RunCtxDone ==
  /\ RunAtSelect
  /\ last.cancelled
  /\ BotStep([last EXCEPT !.run.pc = "returned", !.run.result = "nil"])

(* Stop, called from the goroutine that waits for a signal while Run has   *)
(* not handed back its result: b.cancel() and b.client.StopSync().         *)
StopCancel ==
  /\ last.op = "bot"
  /\ last.stop.pc = "idle"
  /\ last.run.pc # "returned"
  /\ BotStep([last EXCEPT !.cancelled = TRUE, !.stop.pc = "load"])

StopSaveLoad ==
  /\ last.op = "bot"
  /\ last.stop.pc = "load"
  /\ BotStep([last EXCEPT !.stop = SaveLoaded(@)])

StopSaveAssign ==
  /\ last.op = "bot"
  /\ last.stop.pc = "assign"
  /\ BotStep([last EXCEPT !.nextBatch = last.stop.nb,
                          !.config = last.stop.nb,
                          !.stop.pc = "write"])

StopSaveWrite ==
  /\ last.op = "bot"
  /\ last.stop.pc = "write"
  /\ \E ok \in BOOLEAN :
       BotStep([last EXCEPT !.file = SaveWrites(ok),
                            !.saveFailed = @ \/ ~ok,
                            !.stop.pc = "done"])

BotNext ==
  \/ SyncResponse
  \/ SyncFails
  \/ SyncCancelled
  \/ RunFirstSyncCheck
  \/ RunTicker
  \/ RunSaveLoad
  \/ RunSaveAssign
  \/ RunSaveWrite
  \/ RunSyncErr
  \/ RunCtxDone
  \/ StopCancel
  \/ StopSaveLoad
  \/ StopSaveAssign
  \/ StopSaveWrite

BotSpec == BotInit /\ [][BotNext]_vars

(* Every goroutine goes on to its next statement; the select of Run, which *)
(* picks among its ready cases at random, takes a case that is ready again *)
(* and again.                                                              *)
BotFairSpec ==
  /\ BotSpec
  /\ WF_vars(SyncCancelled)
  /\ WF_vars(RunSaveLoad \/ RunSaveAssign \/ RunSaveWrite)
  /\ WF_vars(StopSaveLoad \/ StopSaveAssign \/ StopSaveWrite)
  /\ SF_vars(RunSyncErr)
  /\ SF_vars(RunCtxDone)

(***************************************************************************)
(* The reaction handler with the commands that change items, on their own. *)
(***************************************************************************)
WorkflowNext ==
  \/ React
  \/ StickerDelete
  \/ StickerName
  \/ StickerUsage

WorkflowSpec == Init /\ [][WorkflowNext]_vars

(***************************************************************************)
(* storage.ParseUsage and storage.FormatUsage called on their own.  The    *)
(* inputs are the accepted words and some others, with letters in upper    *)
(* case and with white space before and after; last holds the word, the    *)
(* input made of it and, after the call, what ParseUsage returned and      *)
(* FormatUsage of it.                                                      *)
(***************************************************************************)
MaxPad == 1

Pads == SeqsUpTo({" ", "LF"}, MaxPad)

UsageWords ==
  { WordSticker, WordEmoticon, WordEmoji, WordBoth, WordReset,
    <<"s", "t", "i", "c", "k", "e", "r", "s">>, <<"b", "o", " ", "t", "h">>,
    <<"n", "o", "n", "e">>, <<>> }

ToUpperChar(c) ==
  IF \E i \in 1..Len(LowerLetters) : LowerLetters[i] = c
  THEN UpperLetters[CHOOSE i \in 1..Len(LowerLetters) : LowerLetters[i] = c]
  ELSE c

UpperAt(w, mask) ==
  [i \in 1..Len(w) |-> IF i \in mask THEN ToUpperChar(w[i]) ELSE w[i]]

CaseMasks(w) == { {}, {1}, {Len(w)}, 1..Len(w) }

UsageInit ==
  /\ \E l \in Pads, r \in Pads, w \in UsageWords :
       \E m \in CaseMasks(w) :
         last = [op |-> "input", word |-> w, input |-> l \o UpperAt(w, m) \o r,
                 usage |-> <<>>, err |-> "none", formatted |-> <<>>]
  /\ collection = <<>>
  /\ packs = <<>>
  /\ prev = [packs |-> <<>>, coll |-> <<>>]
  /\ steps = 0

ParseUsageCall ==
  /\ last.op = "input"
  /\ LET r == ParseUsage(last.input)
     IN last' = [op |-> "ParseUsage", word |-> last.word,
                 input |-> last.input, usage |-> r.usage,
                 err |-> r.err,
                 formatted |-> IF r.err = "none" THEN FormatUsage(r.usage)
                               ELSE <<>>]
  /\ UNCHANGED <<collection, packs, prev, steps>>

UsageNext == ParseUsageCall

UsageSpec == UsageInit /\ [][UsageNext]_vars

(***************************************************************************)
(* State functions the properties use.                                     *)
(***************************************************************************)
Members(pks, packName) ==
  IF PackIndex(pks, packName) = 0 THEN <<>>
  ELSE pks[PackIndex(pks, packName)].StickerIDs

InPacksOf(coll, id) ==
  IF StickerIndex(coll, id) = 0 THEN <<>>
  ELSE coll[StickerIndex(coll, id)].InPacks

HasSticker(coll, id) == StickerIndex(coll, id) # 0

HasPack(pks, packName) == PackIndex(pks, packName) # 0

MemberLists(pks) == [i \in 1..Len(pks) |-> <<pks[i].Name, pks[i].StickerIDs>>]

PackLists(coll) == [i \in 1..Len(coll) |-> <<coll[i].ID, coll[i].InPacks>>]

StoresUnchanged == packs = prev.packs /\ collection = prev.coll

Recollected ==
  /\ last.op = "collect"
  /\ last.err = "none"
  /\ HasSticker(prev.coll, last.id)

(***************************************************************************)
(* C1.  Membership is bidirectional: after every completed operation, for  *)
(* every pack P and item I, I.ID is in P.StickerIDs iff P.Name is in       *)
(* I.InPacks.  The workflow stores a record with an empty InPacks over an  *)
(* item that is a member of a pack, so this is violated.                   *)
(***************************************************************************)
C1_BidirectionalMembership ==
  \A i \in 1..Len(packs), j \in 1..Len(collection) :
    Contains(packs[i].StickerIDs, collection[j].ID)
      <=> Contains(collection[j].InPacks, packs[i].Name)

(***************************************************************************)
(* C2.  The collection holds at most one item per content id, and a        *)
(* workflow run on bytes whose content id is already collected does not    *)
(* add an item, whatever the source address and whether or not the bytes   *)
(* were rehosted.                                                          *)
(***************************************************************************)
C2_OneItemPerContentId ==
  /\ \A i, j \in 1..Len(collection) :
       collection[i].ID = collection[j].ID => i = j
  /\ Recollected => Len(collection) = Len(prev.coll)

C2_Witness ==
  /\ Recollected
  /\ last.uploaded
  /\ collection[StickerIndex(collection, last.id)].SourceMXC
       # prev.coll[StickerIndex(prev.coll, last.id)].SourceMXC

(***************************************************************************)
(* C3.  A workflow run on bytes already collected leaves the item's        *)
(* assigned name, its usage override and its list of containing packs as   *)
(* they were.  The workflow builds a whole new record (Name = ID, no       *)
(* usage, InPacks empty) and AddSticker stores it over the old one, so     *)
(* this is violated.                                                       *)
(***************************************************************************)
C3_RecollectKeepsCuration ==
  Recollected =>
    LET new == collection[StickerIndex(collection, last.id)]
        old == prev.coll[StickerIndex(prev.coll, last.id)]
    IN /\ new.Name = old.Name
       /\ new.Usage = old.Usage
       /\ new.InPacks = old.InPacks

(***************************************************************************)
(* C4.  No content id appears twice in the member list of a pack, also     *)
(* after an AddToPack whose id list repeats an id or names a member.       *)
(***************************************************************************)
C4_NoDuplicateMembers ==
  \A i \in 1..Len(packs) : NoDuplicates(packs[i].StickerIDs)

C4_Witness ==
  /\ last.op = "AddToPack"
  /\ last.err = "none"
  /\ ~NoDuplicates(last.ids)
  /\ \E k \in 1..Len(last.ids) : Contains(Members(prev.packs, last.pack), last.ids[k])

(***************************************************************************)
(* C5.  AddToPack is idempotent: when AddToPack(P, L) has succeeded and    *)
(* the same call is made again at once, the second call returns no error   *)
(* and leaves both stores exactly as the first call left them.             *)
(***************************************************************************)
C5_AddToPackIdempotent ==
  (last.op = "AddToPack" /\ last.repeat) =>
    /\ last.err = "none"
    /\ StoresUnchanged

C5_Witness ==
  /\ last.op = "AddToPack"
  /\ last.repeat
  /\ Len(last.ids) = 2
  /\ last.ids[1] # last.ids[2]

(***************************************************************************)
(* C6.  After a successful AddToPack(P, ids) every listed id is a member   *)
(* of P and P is in the InPacks of every listed item; the members P had    *)
(* before keep their places and the new ids come after them.               *)
(***************************************************************************)
C6_AddToPackAppends ==
  (last.op = "AddToPack" /\ last.err = "none") =>
    /\ \A k \in 1..Len(last.ids) :
         /\ Contains(Members(packs, last.pack), last.ids[k])
         /\ Contains(InPacksOf(collection, last.ids[k]), last.pack)
    /\ IsPrefix(Members(prev.packs, last.pack), Members(packs, last.pack))
    /\ Range(Members(packs, last.pack))
         = Range(Members(prev.packs, last.pack)) \cup Range(last.ids)

C6_Witness ==
  /\ last.op = "AddToPack"
  /\ last.err = "none"
  /\ Members(prev.packs, last.pack) # <<>>
  /\ Len(Members(packs, last.pack)) > Len(Members(prev.packs, last.pack))

(***************************************************************************)
(* C7 as claimed.  When AddToPack(P, <<a, b>>) is called with a collected  *)
(* and b not, the call fails for b and the membership of a in P is         *)
(* applied and saved, in P's member list and in a's InPacks.               *)
(***************************************************************************)
C7_PartialAdd ==
  /\ last.op = "AddToPack"
  /\ Len(last.ids) = 2
  /\ HasPack(prev.packs, last.pack)
  /\ HasSticker(prev.coll, last.ids[1])
  /\ ~HasSticker(prev.coll, last.ids[2])

C7_PartialAddIsSaved ==
  C7_PartialAdd =>
    /\ last.err = "sticker not found in collection"
    /\ Contains(Members(packs, last.pack), last.ids[1])
    /\ Contains(InPacksOf(collection, last.ids[1]), last.pack)

(***************************************************************************)
(* C7 as amended.  When AddToPack(P, <<a, b>>) is called with a collected  *)
(* and b not, the call fails for b and saves nothing: both stores are as   *)
(* they were before the call, so a does not become a member of P.          *)
(***************************************************************************)
C7_FailedAddSavesNothing ==
  C7_PartialAdd =>
    /\ last.err = "sticker not found in collection"
    /\ StoresUnchanged

C7_Witness ==
  /\ C7_PartialAdd
  /\ ~Contains(Members(prev.packs, last.pack), last.ids[1])
  /\ ~Contains(Members(packs, last.pack), last.ids[1])

(***************************************************************************)
(* C8.  RemoveFromPack(P, ids) on an existing pack P of which no listed id *)
(* is a member returns no error and leaves the member list of every pack   *)
(* and the InPacks of every item unchanged.                                *)
(***************************************************************************)
C8_RemoveNonMember ==
  /\ last.op = "RemoveFromPack"
  /\ last.ids # <<>>
  /\ HasPack(prev.packs, last.pack)
  /\ \A k \in 1..Len(last.ids) :
       ~Contains(Members(prev.packs, last.pack), last.ids[k])

C8_RemoveNonMemberIsNoOp ==
  C8_RemoveNonMember =>
    /\ last.err = "none"
    /\ MemberLists(packs) = MemberLists(prev.packs)
    /\ PackLists(collection) = PackLists(prev.coll)

C8_Witness ==
  /\ C8_RemoveNonMember
  /\ Len(last.ids) = 1
  /\ InPacksOf(prev.coll, last.ids[1]) # <<>>

(***************************************************************************)
(* C9.  After a successful RemoveFromPack(P, ids) no listed id is a member *)
(* of P and P is in the InPacks of no listed item; the other members of P  *)
(* stay, in their order, the other packs are untouched, the listed items   *)
(* keep their other packs and the other items keep their InPacks.          *)
(***************************************************************************)
C9_RemoveFromPackFrame ==
  (last.op = "RemoveFromPack" /\ last.err = "none") =>
    /\ \A k \in 1..Len(last.ids) :
         /\ ~Contains(Members(packs, last.pack), last.ids[k])
         /\ ~Contains(InPacksOf(collection, last.ids[k]), last.pack)
    /\ Members(packs, last.pack)
         = SelectSeq(Members(prev.packs, last.pack),
                     LAMBDA m : ~Contains(last.ids, m))
    /\ Len(packs) = Len(prev.packs)
    /\ \A i \in 1..Len(packs) :
         packs[i].Name # last.pack => packs[i] = prev.packs[i]
    /\ Len(collection) = Len(prev.coll)
    /\ \A j \in 1..Len(collection) :
         IF Contains(last.ids, collection[j].ID)
         THEN collection[j].InPacks = Without(prev.coll[j].InPacks, last.pack)
         ELSE collection[j] = prev.coll[j]

C9_Witness ==
  /\ last.op = "RemoveFromPack"
  /\ last.err = "none"
  /\ Len(last.ids) = 1
  /\ Contains(Members(prev.packs, last.pack), last.ids[1])
  /\ Members(packs, last.pack) # <<>>
  /\ InPacksOf(collection, last.ids[1]) # <<>>

(***************************************************************************)
(* C10.  AddToPack and RemoveFromPack on a pack name that is not in the    *)
(* pack store fail with "pack not found" and leave both stores unchanged.  *)
(***************************************************************************)
C10_MissingPackChangesNothing ==
  (last.op \in {"AddToPack", "RemoveFromPack"} /\ ~HasPack(prev.packs, last.pack)) =>
    /\ last.err = "pack not found"
    /\ StoresUnchanged

C10_Witness ==
  /\ last.op = "AddToPack"
  /\ last.err = "pack not found"
  /\ packs # <<>>
  /\ last.ids # <<>>
  /\ \A k \in 1..Len(last.ids) : HasSticker(collection, last.ids[k])

(***************************************************************************)
(* C11.  After DeleteSticker(id) succeeds, no pack's member list contains  *)
(* id and GetSticker(id) fails with "sticker not found".  The cascade      *)
(* follows the InPacks of the deleted record, which a re-collection has    *)
(* emptied (C1), so a pack can keep the id: this is violated.              *)
(***************************************************************************)
C11_DeleteRemovesEverywhere ==
  (last.op = "DeleteSticker" /\ last.err = "none") =>
    /\ \A i \in 1..Len(packs) : ~Contains(packs[i].StickerIDs, last.id)
    /\ GetSticker(collection, last.id).err = "sticker not found"

(***************************************************************************)
(* C12.  pack create with a name that is "unsorted" after lower-casing and *)
(* replacing spaces by hyphens fails with the reserved-name error and      *)
(* leaves the pack store unchanged; no stored pack is named "unsorted".    *)
(***************************************************************************)
NormalizesToUnsorted == { <<"U", "n", "s", "o", "r", "t", "e", "d">> }

C12_UnsortedIsReserved ==
  /\ \A i \in 1..Len(packs) : packs[i].Name # <<"u", "n", "s", "o", "r", "t", "e", "d">>
  /\ (last.op = "packCreate" /\ last.arg \in NormalizesToUnsorted) =>
       /\ last.err = "reserved name"
       /\ packs = prev.packs

C12_Witness ==
  /\ last.op = "packCreate"
  /\ last.arg \in NormalizesToUnsorted
  /\ last.err = "reserved name"
  /\ packs # <<>>

(***************************************************************************)
(* C13.  Pack names are unique after normalization: pack create with a     *)
(* name whose normalized form is the name of a stored pack fails with      *)
(* "pack already exists" and leaves the pack store unchanged (display      *)
(* name, members and ledger of the stored pack included); a successful     *)
(* create appends a pack with the normalized name ("F M" gives f-m), the   *)
(* display name as given, no members and an empty ledger.                  *)
(***************************************************************************)
FunnyMemes == <<"F", " ", "M">>

C13_UniqueNormalizedNames ==
  /\ \A i, j \in 1..Len(packs) : packs[i].Name = packs[j].Name => i = j
  /\ (last.op = "packCreate" /\ last.arg = FunnyMemes) =>
       last.pack = <<"f", "-", "m">>
  /\ (last.op = "packCreate" /\ HasPack(prev.packs, last.pack)) =>
       /\ last.err = "pack already exists"
       /\ packs = prev.packs
  /\ (last.op = "packCreate" /\ last.err = "none") =>
       /\ Len(packs) = Len(prev.packs) + 1
       /\ SubSeq(packs, 1, Len(prev.packs)) = prev.packs
       /\ packs[Len(packs)].Name = last.pack
       /\ packs[Len(packs)].DisplayName = last.arg
       /\ packs[Len(packs)].StickerIDs = <<>>
       /\ packs[Len(packs)].PublishedRooms = {}

C13_Witness ==
  /\ last.op = "packCreate"
  /\ last.arg = FunnyMemes
  /\ last.err = "pack already exists"
  /\ HasPack(packs, <<"f", "-", "m">>)
  /\ GetPack(packs, <<"f", "-", "m">>).pack.DisplayName = <<"f", "-", "m">>

(***************************************************************************)
(* C14.  GetSticker, UpdateAltText, SetStickerUsage, SetStickerName and    *)
(* DeleteSticker on an id that is not in the collection fail with          *)
(* "sticker not found", and GetPack, SetPackAvatar, SetPackUsage and       *)
(* UpdatePublished on a pack that is not in the pack store fail with       *)
(* "pack not found"; both stores are then as they were before the call.    *)
(***************************************************************************)
C14_StickerOps ==
  {"GetSticker", "UpdateAltText", "SetStickerUsage", "SetStickerName",
   "DeleteSticker"}

C14_PackOps == {"GetPack", "SetPackAvatar", "SetPackUsage", "UpdatePublished"}

C14_NotFoundChangesNothing ==
  /\ (last.op \in C14_StickerOps /\ ~HasSticker(prev.coll, last.id)) =>
       /\ last.err = "sticker not found"
       /\ StoresUnchanged
  /\ (last.op \in C14_PackOps /\ ~HasPack(prev.packs, last.pack)) =>
       /\ last.err = "pack not found"
       /\ StoresUnchanged

C14_Witness ==
  /\ last.op = "DeleteSticker"
  /\ last.err = "sticker not found"
  /\ collection # <<>>
  /\ \E i \in 1..Len(packs) : packs[i].StickerIDs # <<>>

(***************************************************************************)
(* State functions of the publish properties.                              *)
(***************************************************************************)
Ledger(pks, packName) ==
  IF PackIndex(pks, packName) = 0 THEN {}
  ELSE pks[PackIndex(pks, packName)].PublishedRooms

Both == <<"sticker", "emoticon">>

Republished == last.op = "packPublish" /\ HasPack(prev.packs, last.pack)

(***************************************************************************)
(* C15.  When the ledger of a pack holds one room D, with state key k, a   *)
(* pack publish without a room makes exactly one delivery attempt, to D,   *)
(* with state key k.  When a member of the pack is missing from the        *)
(* collection (a state the re-collection of C1 followed by a delete        *)
(* leaves, C11) the one call of PublishPack ends before any state event    *)
(* is built, so nothing is sent to D under any key: this is violated.      *)
(***************************************************************************)
C15_RepublishReusesKey ==
  \A e \in Ledger(prev.packs, last.pack) :
    (Republished /\ Ledger(prev.packs, last.pack) = {e}) =>
      /\ Len(last.calls) = 1
      /\ last.calls[1].room = e[1]
      /\ last.calls[1].attempted
      /\ last.calls[1].event.stateKey = e[2]

(***************************************************************************)
(* C16.  pack publish without a room calls PublishPack exactly once for    *)
(* every room of the pack's ledger and for no other room, whatever the     *)
(* other calls return; the success count plus the number of rooms          *)
(* reported as errors is the number of rooms of the ledger, and the        *)
(* ledger has the same rooms afterwards.                                   *)
(***************************************************************************)
C16_RepublishEveryRoomOnce ==
  Republished =>
    LET rooms == { e[1] : e \in Ledger(prev.packs, last.pack) }
    IN /\ \A r \in rooms :
            Cardinality({ i \in 1..Len(last.calls) : last.calls[i].room = r }) = 1
       /\ \A i \in 1..Len(last.calls) : last.calls[i].room \in rooms
       /\ last.successCount
            = Cardinality({ i \in 1..Len(last.calls) : last.calls[i].err = "none" })
       /\ Range(last.errors)
            = { last.calls[i].room : i \in { n \in 1..Len(last.calls) :
                                               last.calls[n].err # "none" } }
       /\ last.successCount + Len(last.errors) = Cardinality(rooms)
       /\ { e[1] : e \in Ledger(packs, last.pack) } = rooms

C16_Witness ==
  /\ Republished
  /\ Len(last.calls) = 2
  /\ last.calls[1].err = "failed to send state event"
  /\ last.calls[2].err = "none"
  /\ last.successCount = 1

(***************************************************************************)
(* C17.  A room and its state key enter a pack's ledger only with a state  *)
(* event delivered to that room under that key: a publish that fails       *)
(* (pack not found, missing member, send error) leaves every ledger        *)
(* unchanged, a publish that succeeds records the room of the event with   *)
(* the state key of the event in the ledger of its pack only, and no       *)
(* other command changes the ledger of a stored pack.                      *)
(***************************************************************************)
C17_Delivered ==
  IF last.op = "PublishPack" /\ last.err = "none" /\ last.attempted
  THEN { <<last.event.room, last.event.stateKey>> }
  ELSE IF last.op = "packPublish"
  THEN { <<last.calls[i].event.room, last.calls[i].event.stateKey>> :
           i \in { n \in 1..Len(last.calls) :
                     last.calls[n].attempted /\ last.calls[n].err = "none" } }
  ELSE {}

C17_LedgerOnlyAfterDelivery ==
  /\ (last.op = "PublishPack" /\ last.err # "none") => packs = prev.packs
  /\ (last.op = "PublishPack" /\ last.err = "none") =>
       /\ last.event.room = last.id
       /\ <<last.id, last.event.stateKey>> \in Ledger(packs, last.pack)
  /\ Len(packs) >= Len(prev.packs)
  /\ \A i \in 1..Len(prev.packs) :
       /\ packs[i].Name = prev.packs[i].Name
       /\ packs[i].PublishedRooms \ prev.packs[i].PublishedRooms
            \subseteq IF packs[i].Name = last.pack THEN C17_Delivered ELSE {}
       /\ \A e \in prev.packs[i].PublishedRooms :
            \E f \in packs[i].PublishedRooms : f[1] = e[1]
  /\ \A i \in (Len(prev.packs) + 1)..Len(packs) : packs[i].PublishedRooms = {}

C17_Witness ==
  /\ last.op = "PublishPack"
  /\ last.err = "failed to send state event"
  /\ last.attempted
  /\ Ledger(packs, last.pack) # {}
  /\ \A e \in Ledger(packs, last.pack) : e[1] # last.id

(***************************************************************************)
(* C18.  PublishPack for a stored pack with a member that is not in the    *)
(* collection fails with "sticker not found in collection"; no state       *)
(* event is sent and the pack store is unchanged.                          *)
(***************************************************************************)
C18_MissingMember ==
  /\ last.op = "PublishPack"
  /\ HasPack(prev.packs, last.pack)
  /\ \E k \in 1..Len(Members(prev.packs, last.pack)) :
       ~HasSticker(prev.coll, Members(prev.packs, last.pack)[k])

C18_MissingMemberFails ==
  C18_MissingMember =>
    /\ last.err = "sticker not found in collection"
    /\ ~last.attempted
    /\ last.event = NoEvent
    /\ packs = prev.packs

C18_Witness ==
  /\ C18_MissingMember
  /\ ~last.attempted
  /\ Ledger(prev.packs, last.pack) # {}

(***************************************************************************)
(* C19.  In every payload passed to the transport the usage of the pack    *)
(* is the pack's default usage when one is set and {sticker, emoticon}     *)
(* otherwise, and the entry of a member (the last member with its          *)
(* shortcode) has a usage field iff the item has an override, equal to     *)
(* the override; so the item's usage is the override, else the pack        *)
(* default, else both.                                                     *)
(***************************************************************************)
C19_Shortcode(s) == IF s.Name = "" THEN s.ID ELSE s.Name

C19_Payload(ev, pack, coll) ==
  /\ ev.pack.Usage = IF pack.Usage # <<>> THEN pack.Usage ELSE Both
  /\ \A k \in 1..Len(pack.StickerIDs) :
       LET s == coll[StickerIndex(coll, pack.StickerIDs[k])]
           later == \E n \in (k + 1)..Len(pack.StickerIDs) :
                      C19_Shortcode(coll[StickerIndex(coll, pack.StickerIDs[n])])
                        = C19_Shortcode(s)
       IN ~later =>
            \E e \in ev.images :
              /\ e.shortcode = C19_Shortcode(s)
              /\ e.usage # <<>> <=> s.Usage # <<>>
              /\ s.Usage # <<>> => e.usage = s.Usage
              /\ (IF e.usage # <<>> THEN e.usage ELSE ev.pack.Usage)
                   = IF s.Usage # <<>> THEN s.Usage
                     ELSE IF pack.Usage # <<>> THEN pack.Usage ELSE Both

C20_Reset ==
  /\ last.op = "SetStickerUsage"
  /\ last.arg = <<"r", "e", "s", "e", "t">>
  /\ last.err = "none"

C20_ResetClearsOverrideOnly ==
  C20_Reset =>
    /\ packs = prev.packs
    /\ Len(collection) = Len(prev.coll)
    /\ \A j \in 1..Len(collection) :
         IF prev.coll[j].ID = last.id
         THEN collection[j] = [prev.coll[j] EXCEPT !.Usage = <<>>]
         ELSE collection[j] = prev.coll[j]
    /\ \A i \in 1..Len(packs) :
         Contains(packs[i].StickerIDs, last.id) =>
           LET d == StickerData(GetSticker(collection, last.id).sticker, last.id)
               info == PackInfo(packs[i])
           IN (IF d.usage # <<>> THEN d.usage ELSE info.Usage)
                = IF packs[i].Usage # <<>> THEN packs[i].Usage ELSE Both

C20_Witness ==
  /\ C20_Reset
  /\ GetSticker(prev.coll, last.id).sticker.Usage = <<"sticker">>
  /\ \E i \in 1..Len(packs) :
       /\ Contains(packs[i].StickerIDs, last.id)
       /\ packs[i].Usage = <<"emoticon">>

(***************************************************************************)
(* C21.  ParseUsage maps "sticker" to {sticker}, "emoticon" and "emoji"    *)
(* to {emoticon}, "both" to {sticker, emoticon} and "reset" to no usage,   *)
(* without error, whatever the case of the letters (and the white space    *)
(* around the word); every other word fails with the invalid-usage error;  *)
(* FormatUsage of the parsed value is "sticker", "emoticon", "both", and   *)
(* "(not set)" for the absent usage of "reset".                            *)
(***************************************************************************)
C21_Expected(w) ==
  CASE w = <<"s", "t", "i", "c", "k", "e", "r">> ->
         [usage |-> <<"sticker">>, err |-> "none", formatted |-> <<"sticker">>]
    [] w = <<"e", "m", "o", "t", "i", "c", "o", "n">> ->
         [usage |-> <<"emoticon">>, err |-> "none", formatted |-> <<"emoticon">>]
    [] w = <<"e", "m", "o", "j", "i">> ->
         [usage |-> <<"emoticon">>, err |-> "none", formatted |-> <<"emoticon">>]
    [] w = <<"b", "o", "t", "h">> ->
         [usage |-> <<"sticker", "emoticon">>, err |-> "none",
          formatted |-> <<"both">>]
    [] w = <<"r", "e", "s", "e", "t">> ->
         [usage |-> <<>>, err |-> "none", formatted |-> <<"(not set)">>]
    [] OTHER ->
         [usage |-> <<>>, err |-> "invalid usage type", formatted |-> <<>>]

C21_ParseAndFormatUsage ==
  last.op = "ParseUsage" =>
    /\ last.usage = C21_Expected(last.word).usage
    /\ last.err = C21_Expected(last.word).err
    /\ last.formatted = C21_Expected(last.word).formatted

C21_Witness ==
  /\ last.op = "ParseUsage"
  /\ last.input = <<"E", "m", "o", "j", "i">>
  /\ last.usage = <<"emoticon">>
  /\ last.formatted = <<"emoticon">>

(***************************************************************************)
(* C22.  A run of the workflow that fails at any step (URI parsing,        *)
(* download, decoding, upload, captioning, saving) leaves the collection   *)
(* and the pack store as they were and does not redact the reaction; an    *)
(* upload made before the failing step stands.                             *)
(***************************************************************************)
C22_Failed == last.op = "collect" /\ last.err # "none"

C22_NoPartialCommit ==
  C22_Failed =>
    /\ collection = prev.coll
    /\ packs = prev.packs
    /\ ~last.redacted
    /\ last.id = ""
    /\ (/\ last.err \in {"alt-text generation failed", "failed to save sticker"}
        /\ last.arg.hs # OwnHomeserver) => last.uploaded

C22_Witness ==
  /\ C22_Failed
  /\ last.err = "alt-text generation failed"
  /\ last.uploaded
  /\ collection # <<>>

(***************************************************************************)
(* C23.  A run of the workflow adds or updates an item, or reports         *)
(* success, only when the captioning service returned a description in     *)
(* that run.                                                               *)
(***************************************************************************)
C23_NoItemWithoutCaption ==
  last.op = "collect" =>
    /\ (collection # prev.coll \/ last.err = "none") => last.captioned
    /\ last.err = "alt-text generation failed" =>
         (collection = prev.coll /\ ~last.captioned)

C23_Witness ==
  /\ last.op = "collect"
  /\ last.err = "alt-text generation failed"
  /\ HasSticker(collection, "sha1")
  /\ ~last.uploaded

(***************************************************************************)
(* C24.  A run uploads only when the source address is not on the bot's    *)
(* own homeserver, and every run that gets past the upload step has        *)
(* uploaded iff the source is not on the own homeserver; the LocalMXC of   *)
(* the saved item is the source address when nothing was uploaded and the  *)
(* address the upload returned otherwise.                                  *)
(***************************************************************************)
C24_BeforeUpload ==
  {"invalid MXC URI", "download failed", "failed to get image info",
   "upload failed"}

C24_RehostDecision ==
  last.op = "collect" =>
    /\ last.uploaded => last.arg.hs # OwnHomeserver
    /\ last.err \notin C24_BeforeUpload => (last.uploaded <=> last.arg.hs # OwnHomeserver)
    /\ last.err = "none" =>
         LET item == GetSticker(collection, last.id).sticker
         IN /\ item.SourceMXC = last.arg
            /\ ~last.uploaded => item.LocalMXC = last.arg
            /\ last.uploaded => (item.LocalMXC \in UploadAddrs
                                  /\ item.LocalMXC # last.arg)

C24_Witness ==
  /\ last.op = "collect"
  /\ last.err = "none"
  /\ last.uploaded
  /\ \E j \in 1..Len(collection) :
       collection[j].ID # last.id /\ collection[j].LocalMXC = collection[j].SourceMXC

(***************************************************************************)
(* C25.  The reaction is redacted only in a run that saved the item; a     *)
(* run that saved the item reports success whether or not the redaction    *)
(* succeeded, and the item is in the collection afterwards.                *)
(***************************************************************************)
C25_RedactAfterPersist ==
  last.op = "collect" =>
    /\ last.redacted => (last.err = "none" /\ HasSticker(collection, last.id))
    /\ collection # prev.coll => last.err = "none"
    /\ (last.err = "none" /\ ~last.redacted) => HasSticker(collection, last.id)

C25_Witness ==
  /\ last.op = "collect"
  /\ last.err = "none"
  /\ ~last.redacted
  /\ HasSticker(collection, last.id)
  /\ ~HasSticker(prev.coll, last.id)

(***************************************************************************)
(* C29.  No operation removes a pack or a room of a publish ledger: every  *)
(* pack stored before an operation is stored after it under the same name, *)
(* and every room of its ledger before is a room of its ledger after.      *)
(***************************************************************************)
C29_PacksAndLedgersOnlyGrow ==
  \A i \in 1..Len(prev.packs) :
    /\ HasPack(packs, prev.packs[i].Name)
    /\ LedgerRooms(prev.packs[i]) \subseteq
         { e[1] : e \in Ledger(packs, prev.packs[i].Name) }

C29_Witness ==
  /\ last.op = "PublishPack"
  /\ last.err = "none"
  /\ Len(packs) = 2
  /\ { e[1] : e \in Ledger(prev.packs, last.pack) } = {"!r1"}
  /\ { e[1] : e \in Ledger(packs, last.pack) } = {"!r1", "!r2"}

(***************************************************************************)
(* C30.  Every id in a pack's member list is the id of an item of the      *)
(* collection, and PublishPack never ends with the missing-member error.   *)
(* The re-collection of C1 followed by a delete (C11) leaves a member      *)
(* without an item: this is violated.                                      *)
(***************************************************************************)
C30_MembersAreCollected ==
  /\ \A i \in 1..Len(packs) : \A k \in 1..Len(packs[i].StickerIDs) :
       HasSticker(collection, packs[i].StickerIDs[k])
  /\ last.op = "PublishPack" => last.err # "sticker not found in collection"

(***************************************************************************)
(* C26.  A command with an unknown verb or sub-verb, or with fewer         *)
(* arguments than the help text lists for its verb, is answered with the   *)
(* help text, a usage message or a hint; it changes neither store and      *)
(* makes no call of PublishPack or SendStateEvent.                         *)
(***************************************************************************)
C26_Needs(verb) ==
  CASE verb \in {CmdShow, CmdDelete, CmdRemove} -> 1
    [] verb \in {CmdUsage, CmdName} -> 2

C26_PackNeeds(verb) ==
  CASE verb = CmdList -> 0
    [] verb \in {CmdCreate, CmdShow, CmdPublish} -> 1
    [] verb \in {CmdAdd, CmdRemove, CmdAvatar, CmdUsage} -> 2

C26_Malformed(args) ==
  \/ args = <<>>
  \/ /\ Len(args) >= 1
     /\ args[1] \notin {CmdPack, CmdList, CmdShow, CmdDelete, CmdRemove,
                         CmdUsage, CmdName}
  \/ /\ Len(args) >= 1
     /\ args[1] \in {CmdShow, CmdDelete, CmdRemove, CmdUsage, CmdName}
     /\ Len(args) - 1 < C26_Needs(args[1])
  \/ /\ Len(args) >= 1
     /\ args[1] = CmdPack
     /\ \/ Len(args) = 1
        \/ args[2] \notin {CmdList, CmdCreate, CmdShow, CmdPublish, CmdAdd,
                            CmdRemove, CmdAvatar, CmdUsage}
        \/ Len(args) - 2 < C26_PackNeeds(args[2])
  \/ /\ Len(args) >= 1
     /\ args[1] = CmdList
     /\ (Len(args) = 1 \/ args[2] # CmdUnsorted)

C26_Hints ==
  {"help", "Usage", "Unknown command", "No pack subcommand specified",
   "Unknown pack subcommand", "No list subcommand specified",
   "Unknown list subcommand"}

C26_MalformedChangesNothing ==
  (last.op = "executeCommand" /\ C26_Malformed(last.arg)) =>
    /\ last.err \in C26_Hints
    /\ StoresUnchanged
    /\ ~last.attempted
    /\ last.calls = <<>>

C26_Witness ==
  /\ last.op = "executeCommand"
  /\ last.arg = <<CmdPack, CmdAdd, PackP>>
  /\ last.err = "Usage"
  /\ HasPack(packs, PackP)
  /\ HasSticker(collection, "sha1")
  /\ ~Contains(Members(packs, PackP), "sha1")

(***************************************************************************)
(* C27.  Two storage calls that both return success can lose an update:    *)
(* when caller d held a copy of a file at the moment caller c wrote it,    *)
(* and d wrote the file afterwards, what c added is not in the file at the *)
(* end (an item added by AddSticker, a member added by AddToPack).  d is   *)
(* a call that returns success only when its writes succeeded; a           *)
(* DeleteSticker also returns success when a write of its cascade failed.  *)
(***************************************************************************)
C27_BothSucceeded(c, d) ==
  /\ last.op = "storage calls"
  /\ c # d
  /\ last.callers[c].pc = "done" /\ last.callers[c].err = "none"
  /\ last.callers[d].pc = "done" /\ last.callers[d].err = "none"

C27_LostItem(c, d) ==
  /\ C27_BothSucceeded(c, d)
  /\ d \in last.callers[c].overColl
  /\ last.callers[c].call.name = "AddSticker"
  /\ last.callers[d].call.name \in {"AddSticker", "AddToPack", "RemoveFromPack"}
  /\ last.callers[d].call.id # last.callers[c].call.id
  /\ ~HasSticker(prev.coll, last.callers[c].call.id)

C27_LostMember(c, d) ==
  /\ C27_BothSucceeded(c, d)
  /\ d \in last.callers[c].overPacks
  /\ last.callers[c].call.name = "AddToPack"
  /\ last.callers[d].call.name = "AddToPack"
  /\ last.callers[d].call.id # last.callers[c].call.id
  /\ ~Contains(Members(prev.packs, last.callers[c].call.pack),
               last.callers[c].call.id)

C27_LostUpdate ==
  last.op = "storage calls" =>
    \A c, d \in Callers :
      /\ C27_LostItem(c, d) => ~HasSticker(collection, last.callers[c].call.id)
      /\ C27_LostMember(c, d) =>
           ~Contains(Members(packs, last.callers[c].call.pack),
                     last.callers[c].call.id)

C27_Witness ==
  /\ last.op = "storage calls"
  /\ \E c, d \in Callers :
       /\ C27_LostItem(c, d)
       /\ last.callers[d].call.name = "AddSticker"
       /\ HasSticker(collection, last.callers[d].call.id)
       /\ ~HasSticker(collection, last.callers[c].call.id)

(***************************************************************************)
(* C28.  What a reader loads from the two files satisfies the              *)
(* bidirectional membership invariant, also while AddToPack,               *)
(* RemoveFromPack or the cascade of DeleteSticker is between its writes or *)
(* has failed between them.  This is violated: the functions write         *)
(* collection.json and then packs.json, and the reader can load between    *)
(* the two writes.                                                         *)
(***************************************************************************)
C28_Bidirectional(pks, coll) ==
  /\ \A i \in 1..Len(pks), j \in 1..Len(coll) :
       Contains(pks[i].StickerIDs, coll[j].ID)
         <=> Contains(coll[j].InPacks, pks[i].Name)
  /\ \A i \in 1..Len(pks) : \A k \in 1..Len(pks[i].StickerIDs) :
       HasSticker(coll, pks[i].StickerIDs[k])

C28_ReaderSeesInvariant ==
  (last.op = "storage calls" /\ last.observed.seen) =>
    C28_Bidirectional(last.observed.packs, last.observed.coll)

(***************************************************************************)
(* C31.  The images map of a published payload has one entry per member   *)
(* of the pack: as many keys as the member list is long.  Two members      *)
(* that were given the same name by SetStickerName share one key, and the  *)
(* later one replaces the earlier: this is violated.                       *)
(***************************************************************************)
C31_OneImagePerMember ==
  (last.op = "PublishPack" /\ last.attempted) =>
    Cardinality(last.event.images) = Len(Members(prev.packs, last.pack))

(***************************************************************************)
(* C37.  For every member of a published pack the entry under its          *)
(* shortcode has the generated caption as body when that is not empty,     *)
(* else the original body when that is not empty, else no body key.        *)
(* StickerData.Body has no omitempty, so the key is written with an empty  *)
(* string: this is violated.                                               *)
(***************************************************************************)
C37_BodyOf(sticker, entry) ==
  IF sticker.GeneratedAltText # <<>>
  THEN "body" \in entry.keys /\ entry.body = sticker.GeneratedAltText
  ELSE IF sticker.OriginalBody # <<>>
  THEN "body" \in entry.keys /\ entry.body = sticker.OriginalBody
  ELSE "body" \notin entry.keys

C37_BodyFallback ==
  (last.op = "PublishPack" /\ last.attempted) =>
    \A k \in 1..Len(Members(prev.packs, last.pack)) :
      LET sticker == GetSticker(prev.coll, Members(prev.packs, last.pack)[k]).sticker
      IN \A d \in last.event.images :
           d.shortcode = (IF sticker.Name = "" THEN sticker.ID ELSE sticker.Name)
             => C37_BodyOf(sticker, MarshalStickerData(d))

(***************************************************************************)
(* C32.  What list unsorted lists and pack list counts as unsorted, asked  *)
(* in any state, are the items whose id is in no pack's member list.       *)
(* After the re-collection of C1 a member of a pack has an empty InPacks   *)
(* and is listed and counted as unsorted: this is violated.                *)
(***************************************************************************)
C32_InNoPack(id) == \A i \in 1..Len(packs) : ~Contains(packs[i].StickerIDs, id)

C32_UnsortedIsInNoPack ==
  last.op \notin {"input", "ParseUsage", "storage calls"} =>
    /\ { listUnsorted(collection)[k].ID : k \in 1..Len(listUnsorted(collection)) }
         = { collection[j].ID : j \in { j \in 1..Len(collection) :
                                          C32_InNoPack(collection[j].ID) } }
    /\ unsortedCount(collection)
         = Cardinality({ j \in 1..Len(collection) : C32_InNoPack(collection[j].ID) })

(***************************************************************************)
(* C33.  The edit that editMessage sends with a command's result comes     *)
(* back from sync with the bot's user as sender and a body that starts     *)
(* with "!sticker"; handling it runs no command, sends no edit and leaves  *)
(* the stores alone.  A text message with that prefix that the user sent   *)
(* (not an edit) runs executeCommand once and sends one edit, and there    *)
(* are never more executions than events the user sent.                    *)
(***************************************************************************)
C33_UserCommand(evt) ==
  /\ evt.origin = "user"
  /\ evt.sender = BotUser
  /\ evt.type = "m.room.message"
  /\ evt.msgtype = "m.text"
  /\ evt.relType # "m.replace"
  /\ IsPrefix(StickerPrefix, TrimSpace(evt.body))

C33_EditNotExecuted ==
  last.op \in {"sync", "event"} =>
    /\ last.executions <= last.sent
    /\ last.op = "event" =>
         /\ last.evt.origin = "bot" =>
              /\ last.executed = 0
              /\ last.edits = 0
              /\ collection = prev.coll
              /\ packs = prev.packs
         /\ C33_UserCommand(last.evt) => (last.executed = 1 /\ last.edits = 1)

C33_Witness ==
  /\ last.op = "event"
  /\ last.evt.origin = "bot"
  /\ last.evt.sender = BotUser
  /\ last.evt.msgtype = "m.text"
  /\ IsPrefix(StickerPrefix, last.evt.body)
  /\ last.executions = 1

(***************************************************************************)
(* C34.  When the handling of an event changed a store or made a call on   *)
(* the Matrix client or the captioning service, the event was sent by the  *)
(* bot's user and was a reaction with key !yoink, !nom or !grab, or a text *)
(* message whose body, white space at its ends apart, starts with          *)
(* "!sticker".                                                             *)
(***************************************************************************)
C34_Trigger(evt) ==
  /\ evt.sender = BotUser
  /\ \/ evt.type = "m.reaction" /\ evt.key \in {"!yoink", "!nom", "!grab"}
     \/ /\ evt.type = "m.room.message"
        /\ evt.msgtype = "m.text"
        /\ IsPrefix(StickerPrefix, TrimSpace(evt.body))

C34_OnlyTriggersAct ==
  (/\ last.op = "event"
   /\ \/ collection # prev.coll
      \/ packs # prev.packs
      \/ last.transport # {}) => C34_Trigger(last.evt)

C34_Witness ==
  /\ last.op = "event"
  /\ last.evt.type = "m.reaction"
  /\ last.evt.key = "!nom"
  /\ collection # prev.coll
  /\ {"fetch", "redact"} \subseteq last.transport

(***************************************************************************)
(* C35.  Whatever the interleaving of the reads and writes of concurrent   *)
(* storage calls, AddSticker calls for the same id and for different ids   *)
(* among them, the collection file holds each id at most once after every  *)
(* write.                                                                  *)
(***************************************************************************)
C35_IdsOnce ==
  last.op = "storage calls" =>
    \A i, j \in 1..Len(collection) :
      collection[i].ID = collection[j].ID => i = j

C35_Witness ==
  /\ last.op = "storage calls"
  /\ \E c, d \in Callers :
       /\ c # d
       /\ last.callers[c].call.name = "AddSticker"
       /\ last.callers[d].call.name = "AddSticker"
       /\ last.callers[c].call.id = last.callers[d].call.id
       /\ last.callers[c].pc = "done" /\ last.callers[c].err = "none"
       /\ last.callers[d].pc = "done" /\ last.callers[d].err = "none"
       /\ d \in last.callers[c].overColl
       /\ StickerIndex(prev.coll, last.callers[c].call.id) = 0
       /\ StickerIndex(collection, last.callers[c].call.id) # 0

(***************************************************************************)
(* C36.  One run of the workflow makes its calls in the order fetch        *)
(* (DownloadMedia), upload, caption request, persist (AddSticker),         *)
(* redaction, each at most once, and, every call returning, comes to an    *)
(* end: success after the redaction, or the first failure, after which no  *)
(* call is made.  At the end the collection is what collectSticker as one  *)
(* step makes of the collection the run began on.                          *)
(***************************************************************************)
C36_Rank(call) ==
  CASE call = "getEvent" -> 0
    [] call = "fetch" -> 1
    [] call = "upload" -> 2
    [] call = "caption" -> 3
    [] call = "persist" -> 4
    [] call = "redact" -> 5

C36_Ended == last.op = "run" /\ last.pc \in {"done", "failed"}

C36_InOrderOnce ==
  last.op = "run" =>
    /\ \A i, j \in 1..Len(last.log) :
         i < j => C36_Rank(last.log[i]) < C36_Rank(last.log[j])
    /\ last.pc = "done" =>
         /\ last.err = "none"
         /\ {"fetch", "caption", "persist", "redact"} \subseteq Range(last.log)
    /\ (last.pc = "failed" /\ last.eventAt = "none") =>
         /\ last.err = processReaction(prev.coll, last.run).err
         /\ last.err # "none"
         /\ "redact" \notin Range(last.log)
    /\ (C36_Ended /\ last.eventAt = "none") =>
         collection = processReaction(prev.coll, last.run).coll

C36_SinglePass == [](C36_InOrderOnce) /\ <>(C36_Ended)

C36_Witness ==
  /\ last.op = "run"
  /\ last.pc = "done"
  /\ last.log = <<"getEvent", "fetch", "upload", "caption", "persist", "redact">>

(***************************************************************************)
(* C38.  After Stop the context is cancelled, Run returns, and it returns  *)
(* nil; when Stop has returned, Run has returned and no config.Save has    *)
(* failed, the token in the configuration, in memory and in the file, is   *)
(* the one the sync store holds; and a sync loop that failed makes Run     *)
(* return.  A saveNextBatch of the select loop that loaded its token       *)
(* before Stop and writes after it leaves an older token in the            *)
(* configuration: the checkpoint part is violated.                         *)
(***************************************************************************)
C38_Stopped == last.op = "bot" /\ last.stop.pc # "idle"

C38_Returned == last.op = "bot" /\ last.run.pc = "returned"

C38_Cancelled == C38_Stopped => last.cancelled

C38_RunReturns == (C38_Stopped ~> C38_Returned)

C38_SyncErrorReturns ==
  ((last.op = "bot" /\ last.sync = "exited" /\ last.syncErr # "none")
     ~> C38_Returned)

C38_NilAfterStop ==
  (C38_Stopped /\ C38_Returned) => last.run.result = "nil"

C38_CheckpointSaved ==
  (/\ last.op = "bot"
   /\ last.stop.pc = "done"
   /\ last.run.pc = "returned"
   /\ last.sync = "exited"
   /\ ~last.saveFailed) =>
     /\ last.file = last.store
     /\ last.config = last.store

====
